---- MODULE Spec2Model ----
(***************************************************************************)
(* Scope-hoisting transform of packages/transformers/js/core/src/hoist.rs. *)
(*                                                                         *)
(* `hoist` runs two traversals over one module: Collect (the Analyzer, a   *)
(* read-only visitor that builds the fact base) and Hoist (the Rewriter,   *)
(* a fold that produces the new module body and the result summary).       *)
(* The syntax tree is a tree of records; every visitor and fold method of  *)
(* the source is an operator of the same name that takes the node and the  *)
(* visitor's state and returns the new state (and, for a fold, the new     *)
(* node).  The state machine steps through the top-level items of the      *)
(* module: first the Analyzer, item by item, then the Rewriter, item by    *)
(* item, then the tail of `hoist`.                                         *)
(***************************************************************************)
EXTENDS Integers, Sequences, FiniteSets, TLC

VARIABLES
  module,          \* input: the module body, a sequence of module items
  module_span,     \* input: the span of the module node
  trace_bailouts,  \* input: whether bailouts are collected
  collect,         \* the Collect struct (Analyzer state)
  hoist,           \* the Hoist struct (Rewriter state), plus fold_module's locals
  pc,              \* "collect", "fold", "ret", "done"
  idx,             \* index of the next top-level item of the running traversal
  result           \* what `hoist` returned

vars == <<module, module_span, trace_bailouts, collect, hoist, pc, idx, result>>

-----------------------------------------------------------------------------
(* Bounds of the model.                                                    *)

\* longest module body drawn from Items
MaxItems == 2
\* most declarators in one generated variable declaration
MaxDecls == 3

-----------------------------------------------------------------------------
(* Syntax tree.  A span is <<line, column>>; every top-level item sits on  *)
(* its own line.  ctxt is the lexical-scope identity of an identifier.     *)

DUMMY_SP == <<0, 0>>
\* the span of the module node: a parsed module's span is not DUMMY_SP; no
\* item of the catalogues carries this one
ModuleSpans == {<<1, 99>>}
\* SyntaxContext::empty(): identifiers the resolver does not touch
EmptyCtxt == 0
\* the top-level scope (global_mark); free identifiers resolve here too
GlobalCtxt == 1
\* a nested function scope
FnCtxt == 2

None == [t |-> "None"]

mkIdent(sym, ctxt, span) == [t |-> "Ident", sym |-> sym, ctxt |-> ctxt, span |-> span]
mkStr(value) == [t |-> "Str", value |-> value]
mkNum(value) == [t |-> "Num", value |-> value]
mkNull(span) == [t |-> "Null", span |-> span]
mkMember(obj, prop, computed, span) ==
  [t |-> "Member", obj |-> obj, prop |-> prop, computed |-> computed, span |-> span]
mkCall(callee, args, span) == [t |-> "Call", callee |-> callee, args |-> args, span |-> span]
mkAssign(left, right, span) == [t |-> "Assign", left |-> left, right |-> right, span |-> span]
mkThis(span) == [t |-> "This", span |-> span]
mkUnary(op, arg, span) == [t |-> "Unary", op |-> op, arg |-> arg, span |-> span]
mkSeq(exprs) == [t |-> "Seq", exprs |-> exprs]
mkFunction(params, body) == [params |-> params, body |-> body]
mkFn(function) == [t |-> "Fn", function |-> function]
mkArrow(params, body) == [t |-> "Arrow", params |-> params, body |-> body]
mkAwait(arg) == [t |-> "Await", arg |-> arg]
mkObject(props) == [t |-> "Object", props |-> props]
mkBlock(stmts) == [t |-> "Block", stmts |-> stmts]
\* an anonymous class expression; `class` is the Class node
mkClassExpr(class) == [t |-> "Class", class |-> class]
mkClass(super_class, body) == [super_class |-> super_class, body |-> body]
mkClassMethod(key, function) == [t |-> "ClassMethod", key |-> key, function |-> function]

mkShorthand(id) == [t |-> "Shorthand", id |-> id]
mkKeyValue(key, value) == [t |-> "KeyValue", key |-> key, value |-> value]
mkGetter(key, body) == [t |-> "Getter", key |-> key, body |-> body]
mkSetter(key, param, body) == [t |-> "Setter", key |-> key, param |-> param, body |-> body]
mkMethod(key, function) == [t |-> "Method", key |-> key, function |-> function]

pnIdent(sym) == [t |-> "PnIdent", sym |-> sym]
pnStr(value) == [t |-> "PnStr", value |-> value]
pnComputed(expr) == [t |-> "PnComputed", expr |-> expr]

patIdent(id) == [t |-> "PatIdent", id |-> id]
patArray(elems, span) == [t |-> "PatArray", elems |-> elems, span |-> span]
patObject(props, span) == [t |-> "PatObject", props |-> props, span |-> span]
patAssign(left, right, span) == [t |-> "PatAssign", left |-> left, right |-> right, span |-> span]
patRest(arg, span) == [t |-> "PatRest", arg |-> arg, span |-> span]
patExpr(expr) == [t |-> "PatExpr", expr |-> expr]
ppKeyValue(key, value) == [t |-> "KeyValuePat", key |-> key, value |-> value]
ppAssign(key, value) == [t |-> "AssignPatProp", key |-> key, value |-> value]
ppRest(arg) == [t |-> "RestPatProp", arg |-> arg]

mkExprStmt(expr, span) == [t |-> "ExprStmt", expr |-> expr, span |-> span]
mkDeclarator(name, init, span) == [name |-> name, init |-> init, span |-> span]
mkVarDecl(kind, decls, span) == [t |-> "VarDecl", kind |-> kind, decls |-> decls, span |-> span]
mkReturn(arg, span) == [t |-> "Return", arg |-> arg, span |-> span]
mkFnDecl(ident, function) == [t |-> "FnDecl", ident |-> ident, function |-> function]

mkImportSpec(k, local, imported, span) ==
  [k |-> k, local |-> local, imported |-> imported, span |-> span]
mkImport(src, specifiers) == [t |-> "Import", src |-> src, specifiers |-> specifiers]
mkExportSpec(k, orig, exported, span) ==
  [k |-> k, orig |-> orig, exported |-> exported, span |-> span]
mkExportNamed(src, specifiers) == [t |-> "ExportNamed", src |-> src, specifiers |-> specifiers]
mkExportAll(src, span) == [t |-> "ExportAll", src |-> src, span |-> span]
mkExportDefaultExpr(expr, span) == [t |-> "ExportDefaultExpr", expr |-> expr, span |-> span]
mkExportDefaultDecl(k, ident, function) ==
  [t |-> "ExportDefaultDecl", k |-> k, ident |-> ident, function |-> function]
mkExportDecl(decl) == [t |-> "ExportDecl", decl |-> decl]

IsModuleDecl(item) ==
  item.t \in {"Import", "ExportNamed", "ExportAll", "ExportDefaultExpr",
              "ExportDefaultDecl", "ExportDecl"}

\* Option<T>
Some(v) == [some |-> TRUE, v |-> v]
NoneOf(v) == [some |-> FALSE, v |-> v]

\* HashMap::insert and HashMap::entry(k).or_default().push(v)
MapPut(m, k, v) == [x \in (DOMAIN m) \cup {k} |-> IF x = k THEN v ELSE m[x]]
MapPush(m, k, v) ==
  [x \in (DOMAIN m) \cup {k} |->
     IF x = k THEN (IF k \in DOMAIN m THEN Append(m[k], v) ELSE <<v>>) ELSE m[x]]
\* HashMap::entry(k).or_insert(v)
MapOrInsert(m, k, v) == IF k \in DOMAIN m THEN m ELSE MapPut(m, k, v)
EmptyMap == [x \in {} |-> None]

id(ident) == <<ident.sym, ident.ctxt>>

-----------------------------------------------------------------------------
(* hash!: SipHash-1-3 with a zero key over the bytes of the string,        *)
(* printed with {:x}.  The digests are those of DefaultHasher for the      *)
(* strings the inputs use.                                                 *)

hash(str) ==
  CASE str = "other" -> "70a00e0a8474f72a"
    [] str = "foo" -> "6a5cdcad01c973fa"
    [] str = "bar" -> "d927737047eb3867"
    [] str = "default" -> "2e2bcd8739ae039"
    [] str = "x" -> "d141bba7fdc215a3"
    [] str = "y" -> "4a5767248b18ef41"
    [] str = "a" -> "407448d2b89b1813"
    [] str = "b" -> "8b22cf2602fb60ce"
    [] str = "k" -> "342063e11d6c3cad"
    [] str = "id" -> "d560c7e4a29451c2"
    [] str = "then" -> "ff2899a39f81dcfa"
    [] str = "global" -> "90b4d2ff6acb88af"
    [] str = "exports" -> "57ef29914b108438"
    [] str = "dyn" -> "c7dfaeedff78d5a4"
    [] str = "s1" -> "ede8042ddbb20f54"
    [] str = "s2" -> "88872d1f97e13ba9"
    [] str = "s3" -> "dc9368c5558c5766"
    [] str = "s4" -> "fba4cbb73d5fdb07"
    [] str = "s5" -> "cc9fc94495f9bd7c"
    [] str = "k1" -> "4f06b62de38d8380"
    [] str = "k2" -> "440b206df13db264"
    [] str = "k3" -> "e7b7b58a720b3928"
    [] str = "k4" -> "58d8ad619f2f1b77"
    [] str = "k5" -> "3f5bb8ef9884ed36"

-----------------------------------------------------------------------------
(* utils.rs: the matchers the two traversals share.                        *)

\* match_member_expr without the test that a is undeclared
match_member_expr_by_name(member, idents, decls) ==
  LET prop == member.prop
      prop_ok == \/ (prop.t = "Str" /\ prop.value = idents[2])
                 \/ (prop.t = "Ident" /\ ~member.computed /\ prop.sym = idents[2])
  IN /\ prop_ok
     /\ member.obj.t = "Ident"
     /\ member.obj.sym = idents[1]

\* match_member_expr(expr, vec![a, b], decls): expr is a.b or a['b'] with a undeclared
match_member_expr(member, idents, decls) ==
  LET prop == member.prop
      prop_ok == \/ (prop.t = "Str" /\ prop.value = idents[2])
                 \/ (prop.t = "Ident" /\ ~member.computed /\ prop.sym = idents[2])
  IN /\ prop_ok
     /\ member.obj.t = "Ident"
     /\ member.obj.sym = idents[1]
     /\ id(member.obj) \notin decls

\* match_require(node, decls, ignore_mark): require('x') or module.require('x')
match_require(node, decls) ==
  IF node.t # "Call" THEN NoneOf("")
  ELSE LET callee == node.callee
           arg0 == IF Len(node.args) > 0 /\ node.args[1].t = "Str"
                   THEN Some(node.args[1].value) ELSE NoneOf("")
       IN IF callee.t = "Ident"
          THEN (IF callee.sym = "require" /\ id(callee) \notin decls THEN arg0 ELSE NoneOf(""))
          ELSE IF callee.t = "Member"
          THEN (IF match_member_expr(callee, <<"module", "require">>, decls)
                THEN arg0 ELSE NoneOf(""))
          ELSE NoneOf("")

\* match_import(node, ignore_mark): import('x')
match_import(node) ==
  IF node.t # "Call" THEN NoneOf("")
  ELSE IF node.callee.t = "Ident" /\ node.callee.sym = "import"
          /\ Len(node.args) > 0 /\ node.args[1].t = "Str"
       THEN Some(node.args[1].value)
       ELSE NoneOf("")

-----------------------------------------------------------------------------
(* Collect: the Analyzer.                                                  *)

\* Collect::new
Collect_new(decls, trace) ==
  [decls |-> decls,
   static_cjs_exports |-> TRUE,
   has_cjs_exports |-> FALSE,
   is_esm |-> FALSE,
   should_wrap |-> FALSE,
   imports |-> EmptyMap,
   exports |-> EmptyMap,
   non_static_access |-> EmptyMap,
   non_const_bindings |-> EmptyMap,
   non_static_requires |-> {},
   wrapped_requires |-> {},
   in_module_this |-> TRUE,
   in_top_level |-> TRUE,
   in_export_decl |-> FALSE,
   in_function |-> FALSE,
   in_assign |-> FALSE,
   bailouts |-> IF trace THEN Some(<<>>) ELSE NoneOf(<<>>)]

\* an Analyzer that records no bailout
add_bailout_off(c, span, reason) == c

\* Collect::add_bailout
add_bailout(c, span, reason) ==
  IF c.bailouts.some
  THEN [c EXCEPT !.bailouts.v = Append(@, [loc |-> span, reason |-> reason])]
  ELSE c

mkImportFact(source, specifier, kind, loc) ==
  [source |-> source, specifier |-> specifier, kind |-> kind, loc |-> loc]

\* the span add_pat_imports reports for a pattern
pat_span(node) ==
  CASE node.t = "PatIdent" -> node.id.span
    [] node.t = "PatExpr" -> DUMMY_SP
    [] OTHER -> node.span

RECURSIVE add_pat_imports_props_lenient(_, _, _, _, _)
\* the loop of Collect::add_pat_imports with a rest element that keeps the
\* require static
add_pat_imports_props_lenient(c, props, object_span, src, kind) ==
  IF props = <<>> THEN c
  ELSE LET prop == Head(props)
           non_static ==
             add_bailout([c EXCEPT !.non_static_requires = @ \cup {src}],
                         object_span, "NonStaticDestructuring")
           c1 ==
             CASE prop.t = "KeyValuePat" ->
                    IF prop.key.t = "PnComputed" THEN non_static
                    ELSE LET imported == IF prop.key.t = "PnIdent"
                                         THEN prop.key.sym ELSE prop.key.value
                         IN IF prop.value.t = "PatIdent"
                            THEN [c EXCEPT
                                    !.imports = MapPut(@, id(prop.value.id),
                                       mkImportFact(src, imported, kind, prop.value.id.span)),
                                    !.non_const_bindings =
                                       MapPush(@, id(prop.value.id), prop.value.id.span)]
                            ELSE non_static
               [] prop.t = "AssignPatProp" ->
                    [c EXCEPT
                       !.imports = MapPut(@, id(prop.key),
                          mkImportFact(src, prop.key.sym, kind, prop.key.span)),
                       !.non_const_bindings = MapPush(@, id(prop.key), prop.key.span)]
               [] OTHER -> c
       IN add_pat_imports_props_lenient(c1, Tail(props), object_span, src, kind)

RECURSIVE add_pat_imports_props(_, _, _, _, _)
\* Collect::add_pat_imports, the loop over the properties of an object pattern
add_pat_imports_props(c, props, object_span, src, kind) ==
  IF props = <<>> THEN c
  ELSE LET prop == Head(props)
           non_static ==
             add_bailout([c EXCEPT !.non_static_requires = @ \cup {src}],
                         object_span, "NonStaticDestructuring")
           c1 ==
             CASE prop.t = "KeyValuePat" ->
                    IF prop.key.t = "PnComputed" THEN non_static
                    ELSE LET imported == IF prop.key.t = "PnIdent"
                                         THEN prop.key.sym ELSE prop.key.value
                         IN IF prop.value.t = "PatIdent"
                            THEN [c EXCEPT
                                    !.imports = MapPut(@, id(prop.value.id),
                                       mkImportFact(src, imported, kind, prop.value.id.span)),
                                    !.non_const_bindings =
                                       MapPush(@, id(prop.value.id), prop.value.id.span)]
                            ELSE non_static
               [] prop.t = "AssignPatProp" ->
                    [c EXCEPT
                       !.imports = MapPut(@, id(prop.key),
                          mkImportFact(src, prop.key.sym, kind, prop.key.span)),
                       !.non_const_bindings = MapPush(@, id(prop.key), prop.key.span)]
               [] OTHER -> non_static
       IN add_pat_imports_props(c1, Tail(props), object_span, src, kind)

\* Collect::add_pat_imports
add_pat_imports(c, node, src, kind) ==
  LET c1 == IF ~c.in_top_level
            THEN LET w == [c EXCEPT !.wrapped_requires = @ \cup {src}]
                 IN IF kind # "DynamicImport"
                    THEN add_bailout([w EXCEPT !.non_static_requires = @ \cup {src}],
                                     pat_span(node), "NonTopLevelRequire")
                    ELSE w
            ELSE c
  IN CASE node.t = "PatIdent" ->
            [c1 EXCEPT !.imports =
               MapPut(@, id(node.id), mkImportFact(src, "*", kind, node.id.span))]
       [] node.t = "PatObject" ->
            add_pat_imports_props(c1, node.props, node.span, src, kind)
       [] OTHER ->
            add_bailout([c1 EXCEPT !.non_static_requires = @ \cup {src}],
                        pat_span(node), "NonStaticDestructuring")

RECURSIVE has_binding_identifier(_, _, _)
\* has_binding_identifier
has_binding_identifier(node, sym, decls) ==
  CASE node.t = "PatIdent" -> node.id.sym = sym /\ id(node.id) \notin decls
    [] node.t = "PatObject" ->
         \E i \in 1..Len(node.props) :
           LET prop == node.props[i]
           IN CASE prop.t = "KeyValuePat" -> has_binding_identifier(prop.value, sym, decls)
                [] prop.t = "AssignPatProp" -> prop.key.sym = sym /\ id(prop.key) \notin decls
                [] OTHER -> has_binding_identifier(prop.arg, sym, decls)
    [] node.t = "PatArray" ->
         \E i \in 1..Len(node.elems) : has_binding_identifier(node.elems[i], sym, decls)
    [] OTHER -> FALSE

\* Collect::visit_binding_ident
visit_binding_ident(node, c) ==
  LET c1 == IF c.in_export_decl
            THEN [c EXCEPT !.exports = MapPut(@, id(node.id), node.id.sym)]
            ELSE c
  IN IF c1.in_assign /\ node.id.ctxt = GlobalCtxt
     THEN [c1 EXCEPT !.non_const_bindings = MapPush(@, id(node.id), node.id.span)]
     ELSE c1

\* Collect::visit_assign_pat_prop
visit_assign_pat_prop(node, c) ==
  LET c1 == IF c.in_export_decl
            THEN [c EXCEPT !.exports = MapPut(@, id(node.key), node.key.sym)]
            ELSE c
  IN IF c1.in_assign /\ node.key.ctxt = GlobalCtxt
     THEN [c1 EXCEPT !.non_const_bindings = MapPush(@, id(node.key), node.key.span)]
     ELSE c1

\* Collect::visit_this_expr
visit_this_expr(node, c) ==
  IF c.in_module_this
  THEN add_bailout([c EXCEPT !.has_cjs_exports = TRUE, !.static_cjs_exports = FALSE],
                   node.span, "FreeExports")
  ELSE c

\* Collect::visit_import_decl, the loop over the specifiers
RECURSIVE visit_import_specifiers(_, _, _)
visit_import_specifiers(specifiers, src, c) ==
  IF specifiers = <<>> THEN c
  ELSE LET s == Head(specifiers)
           imported ==
             CASE s.k = "Named" -> IF s.imported = "" THEN s.local.sym ELSE s.imported
               [] s.k = "Default" -> "default"
               [] OTHER -> "*"
       IN visit_import_specifiers(Tail(specifiers), src,
            [c EXCEPT !.imports =
               MapPut(@, id(s.local), mkImportFact(src, imported, "Import", s.span))])

\* Collect::visit_import_decl
visit_import_decl(node, c) == visit_import_specifiers(node.specifiers, node.src, c)

\* Collect::visit_named_export, the loop over the specifiers
RECURSIVE visit_export_specifiers(_, _)
visit_export_specifiers(specifiers, c) ==
  IF specifiers = <<>> THEN c
  ELSE LET s == Head(specifiers)
           exported ==
             CASE s.k = "Named" -> IF s.exported = "" THEN s.orig.sym ELSE s.exported
               [] s.k = "Default" -> "default"
               [] OTHER -> "*"
       IN visit_export_specifiers(Tail(specifiers),
            [c EXCEPT !.exports = MapOrInsert(@, id(s.orig), exported)])

\* Collect::visit_named_export
visit_named_export(node, c) ==
  IF node.src # "" THEN c ELSE visit_export_specifiers(node.specifiers, c)

RECURSIVE visit_expr(_, _), visit_exprs(_, _), visit_member_expr(_, _),
          visit_call_expr(_, _), visit_assign_expr(_, _), visit_unary_expr(_, _),
          visit_function(_, _), visit_class(_, _), visit_class_members(_, _),
          visit_getter_prop(_, _), visit_setter_prop(_, _),
          visit_arrow_expr(_, _), visit_pat(_, _), visit_pats(_, _),
          visit_object_pat_props(_, _), visit_prop_name(_, _), visit_props(_, _),
          visit_stmt(_, _), visit_stmts(_, _), visit_return_stmt(_, _),
          visit_var_declarator(_, _), visit_var_declarators(_, _), visit_module_item(_, _),
          visit_with(_, _, _)

\* VisitWith::visit_with: the method of Collect for a node of type `ty`, the
\* default traversal where Collect does not override it.  The visitor is
\* `&mut self`: its state is read before the method is entered
visit_with(ty, node, x) ==
  IF x.in_top_level \notin BOOLEAN THEN x
  ELSE
    CASE ty = "Expr" -> visit_expr(node, x)
      [] ty = "Exprs" -> visit_exprs(node, x)
      [] ty = "MemberExpr" -> visit_member_expr(node, x)
      [] ty = "CallExpr" -> visit_call_expr(node, x)
      [] ty = "AssignExpr" -> visit_assign_expr(node, x)
      [] ty = "UnaryExpr" -> visit_unary_expr(node, x)
      [] ty = "Function" -> visit_function(node, x)
      [] ty = "Class" -> visit_class(node, x)
      [] ty = "ClassMembers" -> visit_class_members(node, x)
      [] ty = "GetterProp" -> visit_getter_prop(node, x)
      [] ty = "SetterProp" -> visit_setter_prop(node, x)
      [] ty = "ArrowExpr" -> visit_arrow_expr(node, x)
      [] ty = "Pat" -> visit_pat(node, x)
      [] ty = "Pats" -> visit_pats(node, x)
      [] ty = "ObjectPatProps" -> visit_object_pat_props(node, x)
      [] ty = "PropName" -> visit_prop_name(node, x)
      [] ty = "Props" -> visit_props(node, x)
      [] ty = "Stmt" -> visit_stmt(node, x)
      [] ty = "Stmts" -> visit_stmts(node, x)
      [] ty = "ReturnStmt" -> visit_return_stmt(node, x)
      [] ty = "VarDeclarator" -> visit_var_declarator(node, x)
      [] ty = "VarDeclarators" -> visit_var_declarators(node, x)
      [] ty = "ModuleItem" -> visit_module_item(node, x)

\* Collect::visit_expr
visit_expr(node, c) ==
  LET req == match_require(node, c.decls)
      c1 == IF req.some
            THEN add_bailout([c EXCEPT !.wrapped_requires = @ \cup {req.v}],
                             node.span, "NonTopLevelRequire")
            ELSE c
      imp == match_import(node)
      c2 == IF imp.some
            THEN add_bailout([c1 EXCEPT !.non_static_requires = @ \cup {imp.v},
                                        !.wrapped_requires = @ \cup {imp.v}],
                             node.span, "NonStaticDynamicImport")
            ELSE c1
  IN CASE node.t = "Ident" ->
            LET is_module == node.sym = "module"
                is_exports == node.sym = "exports"
                c3 == IF (is_module \/ is_exports) /\ id(node) \notin c2.decls
                      THEN add_bailout(
                             [c2 EXCEPT !.has_cjs_exports = TRUE,
                                        !.static_cjs_exports = FALSE,
                                        !.should_wrap = IF is_module THEN TRUE ELSE @],
                             node.span, IF is_module THEN "FreeModule" ELSE "FreeExports")
                      ELSE c2
            IN IF node.sym # "import"
               THEN [c3 EXCEPT !.non_static_access = MapPush(@, id(node), node.span)]
               ELSE c3
       [] node.t = "Member" -> visit_with("MemberExpr", node, c2)
       [] node.t = "Call" -> visit_with("CallExpr", node, c2)
       [] node.t = "Assign" -> visit_with("AssignExpr", node, c2)
       [] node.t = "This" -> visit_this_expr(node, c2)
       [] node.t = "Unary" -> visit_with("UnaryExpr", node, c2)
       [] node.t = "Seq" -> visit_with("Exprs", node.exprs, c2)
       [] node.t = "Fn" -> visit_with("Function", node.function, c2)
       [] node.t = "Class" -> visit_with("Class", node.class, c2)
       [] node.t = "Arrow" -> visit_with("ArrowExpr", node, c2)
       [] node.t = "Await" -> visit_with("Expr", node.arg, c2)
       [] node.t = "Object" -> visit_with("Props", node.props, c2)
       [] OTHER -> c2

visit_exprs(exprs, c) ==
  IF exprs = <<>> THEN c ELSE visit_with("Exprs", Tail(exprs), visit_with("Expr", Head(exprs), c))

\* Collect::visit_member_expr
visit_member_expr(node, c) ==
  IF match_member_expr(node, <<"module", "exports">>, c.decls)
  THEN [c EXCEPT !.static_cjs_exports = FALSE, !.has_cjs_exports = TRUE]
  ELSE IF match_member_expr(node, <<"module", "hot">>, c.decls) THEN c
  ELSE IF match_member_expr(node, <<"module", "require">>, c.decls) THEN c
  ELSE
    LET is_static == CASE node.prop.t = "Ident" -> ~node.computed
                       [] node.prop.t = "Str" -> TRUE
                       [] OTHER -> FALSE
        obj == node.obj
        cjs(x) == IF ~is_static
                  THEN add_bailout([x EXCEPT !.has_cjs_exports = TRUE,
                                             !.static_cjs_exports = FALSE],
                                   node.span, "NonStaticExports")
                  ELSE [x EXCEPT !.has_cjs_exports = TRUE]
    IN CASE obj.t = "Member" ->
              IF match_member_expr(obj, <<"module", "exports">>, c.decls) THEN cjs(c) ELSE c
         [] obj.t = "Ident" ->
              LET c1 == IF obj.sym = "exports" /\ id(obj) \notin c.decls THEN cjs(c) ELSE c
                  c2 == IF obj.sym = "module" /\ id(obj) \notin c.decls
                        THEN add_bailout([c1 EXCEPT !.has_cjs_exports = TRUE,
                                                    !.static_cjs_exports = FALSE,
                                                    !.should_wrap = TRUE],
                                         node.span, "FreeModule")
                        ELSE c1
              IN IF ~is_static /\ obj.sym # "import"
                 THEN [c2 EXCEPT !.non_static_access = MapPush(@, id(obj), node.span)]
                 ELSE c2
         [] obj.t = "This" -> IF c.in_module_this THEN cjs(c) ELSE c
         [] OTHER -> visit_with("Expr", node.prop, visit_with("Expr", node.obj, c))

\* Collect::visit_unary_expr without the arm for `typeof module`
visit_unary_expr_plain(node, c) == visit_with("Expr", node.arg, c)

\* Collect::visit_unary_expr
visit_unary_expr(node, c) ==
  IF /\ node.op = "typeof"
     /\ node.arg.t = "Ident"
     /\ node.arg.sym = "module"
     /\ id(node.arg) \notin c.decls
  THEN c
  ELSE visit_with("Expr", node.arg, c)

\* Collect::visit_assign_expr
visit_assign_expr(node, c) ==
  LET c1 == visit_with("Pat", node.left, [c EXCEPT !.in_assign = TRUE])
      c2 == visit_with("Expr", node.right, [c1 EXCEPT !.in_assign = FALSE])
      reassigned(x, reason) ==
        add_bailout([x EXCEPT !.static_cjs_exports = FALSE, !.has_cjs_exports = TRUE,
                              !.should_wrap = TRUE],
                    node.span, reason)
  IN IF node.left.t = "PatExpr" THEN c2
     ELSE IF has_binding_identifier(node.left, "exports", c2.decls)
     THEN reassigned(c2, "ExportsReassignment")
     ELSE IF has_binding_identifier(node.left, "module", c2.decls)
     THEN reassigned(c2, "ModuleReassignment")
     ELSE c2

\* Collect::visit_call_expr
visit_call_expr(node, c) ==
  LET callee == node.callee
      children == visit_with("Exprs", node.args, visit_with("Expr", callee, c))
  IN CASE callee.t = "Ident" ->
            IF callee.sym = "eval" /\ id(callee) \notin c.decls
            THEN visit_with("Exprs", node.args,
                   visit_with("Expr", callee,
                     add_bailout([c EXCEPT !.should_wrap = TRUE], node.span, "Eval")))
            ELSE children
       [] callee.t = "Member" ->
            LET source == match_import(callee.obj)
                is_then == CASE callee.prop.t = "Ident" ->
                                  ~callee.computed /\ callee.prop.sym = "then"
                             [] callee.prop.t = "Str" -> callee.prop.value = "then"
                             [] OTHER -> FALSE
            IN IF source.some /\ is_then /\ Len(node.args) > 0
               THEN LET expr == node.args[1]
                        param ==
                          CASE expr.t = "Fn" ->
                                 IF Len(expr.function.params) > 0
                                 THEN Some(expr.function.params[1]) ELSE NoneOf(None)
                            [] expr.t = "Arrow" ->
                                 IF Len(expr.params) > 0
                                 THEN Some(expr.params[1]) ELSE NoneOf(None)
                            [] OTHER -> NoneOf(None)
                        c1 == IF param.some
                              THEN add_pat_imports(c, param.v, source.v, "DynamicImport")
                              ELSE add_bailout(
                                     [c EXCEPT !.non_static_requires = @ \cup {source.v},
                                               !.wrapped_requires = @ \cup {source.v}],
                                     node.span, "NonStaticDynamicImport")
                    IN visit_with("Expr", expr, c1)
               ELSE children
       [] OTHER -> children

\* collect_visit_fn!(visit_function, Function)
visit_function(node, c) ==
  LET c1 == [c EXCEPT !.in_module_this = FALSE, !.in_function = TRUE]
      c2 == visit_with("Stmts", node.body, visit_with("Pats", node.params, c1))
  IN [c2 EXCEPT !.in_module_this = c.in_module_this, !.in_function = c.in_function]

\* collect_visit_fn!(visit_class, Class): the members, then the heritage
visit_class(node, c) ==
  LET c1 == [c EXCEPT !.in_module_this = FALSE, !.in_function = TRUE]
      c2 == visit_with("ClassMembers", node.body, c1)
      c3 == IF node.super_class = None THEN c2 ELSE visit_with("Expr", node.super_class, c2)
  IN [c3 EXCEPT !.in_module_this = c.in_module_this, !.in_function = c.in_function]

\* Visit::visit_class_members (not overridden), over methods: key, then function
visit_class_members(members, c) ==
  IF members = <<>> THEN c
  ELSE LET m == Head(members)
           c1 == visit_with("Function", m.function, visit_with("PropName", m.key, c))
       IN visit_with("ClassMembers", Tail(members), c1)

\* collect_visit_fn!(visit_getter_prop, GetterProp)
visit_getter_prop(node, c) ==
  LET c1 == [c EXCEPT !.in_module_this = FALSE, !.in_function = TRUE]
      c2 == visit_with("Stmts", node.body, visit_with("PropName", node.key, c1))
  IN [c2 EXCEPT !.in_module_this = c.in_module_this, !.in_function = c.in_function]

\* collect_visit_fn!(visit_setter_prop, SetterProp)
visit_setter_prop(node, c) ==
  LET c1 == [c EXCEPT !.in_module_this = FALSE, !.in_function = TRUE]
      c2 == visit_with("Stmts", node.body, visit_with("Pat", node.param, visit_with("PropName", node.key, c1)))
  IN [c2 EXCEPT !.in_module_this = c.in_module_this, !.in_function = c.in_function]

\* Collect::visit_arrow_expr
visit_arrow_expr(node, c) ==
  LET c1 == visit_with("Pats", node.params, [c EXCEPT !.in_function = TRUE])
      c2 == IF node.body.t = "Block" THEN visit_with("Stmts", node.body.stmts, c1)
            ELSE visit_with("Expr", node.body, c1)
  IN [c2 EXCEPT !.in_function = c.in_function]

\* Visit::visit_pat (not overridden): dispatch on the pattern
visit_pat(node, c) ==
  CASE node.t = "PatIdent" -> visit_binding_ident(node, c)
    [] node.t = "PatArray" -> visit_with("Pats", node.elems, c)
    [] node.t = "PatObject" -> visit_with("ObjectPatProps", node.props, c)
    [] node.t = "PatAssign" -> visit_with("Expr", node.right, visit_with("Pat", node.left, c))
    [] node.t = "PatRest" -> visit_with("Pat", node.arg, c)
    [] OTHER -> visit_with("Expr", node.expr, c)

visit_pats(pats, c) ==
  IF pats = <<>> THEN c ELSE visit_with("Pats", Tail(pats), visit_with("Pat", Head(pats), c))

visit_object_pat_props(props, c) ==
  IF props = <<>> THEN c
  ELSE LET prop == Head(props)
           c1 == CASE prop.t = "KeyValuePat" ->
                        visit_with("Pat", prop.value, visit_with("PropName", prop.key, c))
                   [] prop.t = "AssignPatProp" -> visit_assign_pat_prop(prop, c)
                   [] OTHER -> visit_with("Pat", prop.arg, c)
       IN visit_with("ObjectPatProps", Tail(props), c1)

\* Visit::visit_prop_name (not overridden)
visit_prop_name(key, c) ==
  IF key.t = "PnComputed" THEN visit_with("Expr", key.expr, c) ELSE c

\* Visit::visit_prop (not overridden), over the properties of an object literal
visit_props(props, c) ==
  IF props = <<>> THEN c
  ELSE LET prop == Head(props)
           c1 == CASE prop.t = "Shorthand" -> c
                   [] prop.t = "KeyValue" ->
                        visit_with("Expr", prop.value, visit_with("PropName", prop.key, c))
                   [] prop.t = "Getter" -> visit_with("GetterProp", prop, c)
                   [] prop.t = "Setter" -> visit_with("SetterProp", prop, c)
                   [] OTHER -> visit_with("Function", prop.function, visit_with("PropName", prop.key, c))
       IN visit_with("Props", Tail(props), c1)

\* Collect::visit_return_stmt
visit_return_stmt(node, c) ==
  LET c1 == IF ~c.in_function
            THEN add_bailout([c EXCEPT !.should_wrap = TRUE], node.span, "TopLevelReturn")
            ELSE c
  IN IF node.arg = None THEN c1 ELSE visit_with("Expr", node.arg, c1)

\* Collect::visit_var_declarator
visit_var_declarator(node, c) ==
  LET init == node.init
      children ==
        LET c1 == visit_with("Pat", node.name, [c EXCEPT !.in_top_level = FALSE])
            c2 == IF init = None THEN c1 ELSE visit_with("Expr", init, c1)
        IN [c2 EXCEPT !.in_top_level = c.in_top_level]
  IN IF init = None THEN children
     ELSE IF match_require(init, c.decls).some
     THEN add_pat_imports(c, node.name, match_require(init, c.decls).v, "Require")
     ELSE IF init.t = "Member" /\ match_require(init.obj, c.decls).some
     THEN LET key == CASE init.prop.t = "Ident" ->
                            IF ~init.computed THEN pnIdent(init.prop.sym)
                            ELSE pnComputed(init.obj)
                       [] init.prop.t = "Str" -> pnStr(init.prop.value)
                       [] OTHER -> pnComputed(init.obj)
          IN add_pat_imports(c,
               patObject(<<ppKeyValue(key, node.name)>>, DUMMY_SP),
               match_require(init.obj, c.decls).v, "Require")
     ELSE IF init.t = "Await" /\ match_import(init.arg).some
     THEN add_pat_imports(c, node.name, match_import(init.arg).v, "DynamicImport")
     ELSE children

visit_var_declarators(decls, c) ==
  IF decls = <<>> THEN c
  ELSE visit_with("VarDeclarators", Tail(decls), visit_with("VarDeclarator", Head(decls), c))

\* Visit::visit_stmt (not overridden): dispatch on the statement
visit_stmt(node, c) ==
  CASE node.t = "ExprStmt" -> visit_with("Expr", node.expr, c)
    [] node.t = "VarDecl" -> visit_with("VarDeclarators", node.decls, c)
    [] node.t = "Return" -> visit_with("ReturnStmt", node, c)
    [] OTHER -> visit_with("Function", node.function, c)

visit_stmts(stmts, c) ==
  IF stmts = <<>> THEN c ELSE visit_with("Stmts", Tail(stmts), visit_with("Stmt", Head(stmts), c))

\* Collect::visit_export_decl, the loop over the declarators of `export var`
RECURSIVE visit_export_var_decls(_, _)
visit_export_var_decls(decls, c) ==
  IF decls = <<>> THEN c
  ELSE LET decl == Head(decls)
           c1 == visit_with("Pat", decl.name, [c EXCEPT !.in_export_decl = TRUE])
           c2 == [c1 EXCEPT !.in_export_decl = FALSE]
           c3 == IF decl.init = None THEN c2 ELSE visit_with("Expr", decl.init, c2)
       IN visit_export_var_decls(Tail(decls), c3)

\* Collect::visit_export_decl
visit_export_decl(node, c) ==
  LET decl == node.decl
      c1 == CASE decl.t = "FnDecl" ->
                   [c EXCEPT !.exports = MapPut(@, id(decl.ident), decl.ident.sym)]
              [] decl.t = "VarDecl" -> visit_export_var_decls(decl.decls, c)
              [] OTHER -> c
  IN visit_with("Stmt", decl, c1)

\* Collect::visit_export_default_decl
visit_export_default_decl(node, c) ==
  LET c1 == IF node.ident # None
            THEN [c EXCEPT !.exports = MapPut(@, id(node.ident), "default")]
            ELSE c
  IN visit_with("Function", node.function, c1)

\* Visit::visit_module_decl (not overridden): dispatch on the declaration
visit_module_decl(node, c) ==
  CASE node.t = "Import" -> visit_import_decl(node, c)
    [] node.t = "ExportNamed" -> visit_named_export(node, c)
    [] node.t = "ExportAll" -> c
    [] node.t = "ExportDefaultExpr" -> visit_with("Expr", node.expr, c)
    [] node.t = "ExportDefaultDecl" -> visit_export_default_decl(node, c)
    [] OTHER -> visit_export_decl(node, c)

\* Collect::visit_module_item
visit_module_item(node, c) ==
  LET nested(x) ==
        LET c1 == [x EXCEPT !.in_top_level = FALSE]
            c2 == IF IsModuleDecl(node) THEN visit_module_decl(node, c1)
                  ELSE visit_with("Stmt", node, c1)
        IN [c2 EXCEPT !.in_top_level = TRUE]
  IN IF IsModuleDecl(node) THEN nested([c EXCEPT !.is_esm = TRUE])
     ELSE IF node.t = "VarDecl" THEN visit_with("VarDeclarators", node.decls, c)
     ELSE IF node.t = "ExprStmt" /\ match_require(node.expr, c.decls).some THEN c
     ELSE nested(c)

\* SourceLocation's partial_cmp: by line, then by column
LocLess(a, b) == a[1] < b[1] \/ (a[1] = b[1] /\ a[2] < b[2])

\* Vec::sort_by (stable) on the location of the bailouts
RECURSIVE SortedInsert(_, _)
SortedInsert(sorted, b) ==
  IF sorted = <<>> THEN <<b>>
  ELSE LET last == sorted[Len(sorted)]
       IN IF LocLess(b.loc, last.loc)
          THEN Append(SortedInsert(SubSeq(sorted, 1, Len(sorted) - 1), b), last)
          ELSE Append(sorted, b)

RECURSIVE sort_by_loc(_)
sort_by_loc(bailouts) ==
  IF bailouts = <<>> THEN <<>>
  ELSE SortedInsert(sort_by_loc(SubSeq(bailouts, 1, Len(bailouts) - 1)),
                    bailouts[Len(bailouts)])

\* the bailouts visit_module appends for the non-static accesses of the imports `keys`
RECURSIVE NonStaticAccessBailouts(_, _)
NonStaticAccessBailouts(keys, c) ==
  IF keys = {} THEN <<>>
  ELSE LET key == CHOOSE k \in keys : TRUE
           spans == IF key \in DOMAIN c.non_static_access
                    THEN c.non_static_access[key] ELSE <<>>
       IN [i \in 1..Len(spans) |-> [loc |-> spans[i], reason |-> "NonStaticAccess"]]
          \o NonStaticAccessBailouts(keys \ {key}, c)

\* Collect::visit_module, after the children
visit_module_end(c) ==
  LET c1 == [c EXCEPT !.in_module_this = FALSE]
  IN IF c1.bailouts.some
     THEN [c1 EXCEPT !.bailouts.v =
             sort_by_loc(@ \o NonStaticAccessBailouts(DOMAIN c1.imports, c1))]
     ELSE c1

-----------------------------------------------------------------------------
(* Hoist: the Rewriter.  A fold returns [n |-> the new node, h |-> the new *)
(* Hoist state].                                                           *)

\* the module_id argument of `hoist`
module_id == "abc"

\* Hoist::new; hoisted_imports is the local of fold_module
Hoist_new(c) ==
  [collect |-> c,
   module_items |-> <<>>,
   hoisted_imports |-> <<>>,
   export_decls |-> {},
   imported_symbols |-> <<>>,
   exported_symbols |-> <<>>,
   re_exports |-> <<>>,
   self_references |-> {},
   dynamic_imports |-> EmptyMap,
   in_function_scope |-> FALSE,
   diagnostics |-> <<>>]

Ret(n, h) == [n |-> n, h |-> h]

ImportedSymbol(source, local, imported, loc) ==
  [source |-> source, local |-> local, imported |-> imported, loc |-> loc]
ExportedSymbol(local, exported, loc) ==
  [local |-> local, exported |-> exported, loc |-> loc]

\* the side-effect import `import "<module_id>:<source>"`
SideEffectImport(source) == mkImport(module_id \o ":" \o source, <<>>)

\* add_require that records a `*` symbol for the required module as well
add_require_symbol(h, source) ==
  [h EXCEPT !.module_items = Append(@, SideEffectImport(source)),
            !.imported_symbols =
               Append(@, ImportedSymbol(source, "$" \o module_id \o "$import$" \o hash(source),
                                        "*", DUMMY_SP))]

\* Hoist::add_require
add_require(h, source) ==
  [h EXCEPT !.module_items = Append(@, SideEffectImport(source))]

\* get_import_name without the key: the namespace name for every access
get_import_name_flat(source, local) == "$" \o module_id \o "$import$" \o hash(source)

\* Hoist::get_import_name
get_import_name(source, local) ==
  IF local = "*"
  THEN "$" \o module_id \o "$import$" \o hash(source)
  ELSE "$" \o module_id \o "$import$" \o hash(source) \o "$" \o hash(local)

\* the names fold_expr and fold_ident build for dynamic imports
ImportAsyncName(source) == "$" \o module_id \o "$importAsync$" \o hash(source)
\* the per-key name without the key
ImportAsyncKeyName_flat(source, key) == "$" \o module_id \o "$importAsync$" \o hash(source)
ImportAsyncKeyName(source, key) ==
  "$" \o module_id \o "$importAsync$" \o hash(source) \o "$" \o hash(key)

\* Hoist::get_import_ident; `span` and `ctxt` are the location and the syntax
\* context of the code's Span, which the new identifier keeps
get_import_ident(h, span, ctxt, source, imported, loc) ==
  LET new_name == get_import_name(source, imported)
  IN Ret(mkIdent(new_name, ctxt, span),
         [h EXCEPT !.imported_symbols =
            Append(@, ImportedSymbol(source, new_name, imported, loc))])

\* Hoist::get_require_ident
get_require_ident(local) ==
  mkIdent("$" \o module_id \o "$require$" \o local, EmptyCtxt, DUMMY_SP)

\* get_export_ident with a name that counts the records pushed so far
get_export_ident_counted(h, span, exported) ==
  LET new_name == (IF exported = "*"
                   THEN "$" \o module_id \o "$exports"
                   ELSE "$" \o module_id \o "$export$" \o hash(exported))
                  \o (IF h.exported_symbols = <<>> THEN "" ELSE "$1")
  IN Ret(mkIdent(new_name, EmptyCtxt, span),
         [h EXCEPT !.exported_symbols =
            Append(@, ExportedSymbol(new_name, exported, span))])

\* Hoist::get_export_ident
get_export_ident(h, span, exported) ==
  LET new_name == IF exported = "*"
                  THEN "$" \o module_id \o "$exports"
                  ELSE "$" \o module_id \o "$export$" \o hash(exported)
  IN Ret(mkIdent(new_name, EmptyCtxt, span),
         [h EXCEPT !.exported_symbols =
            Append(@, ExportedSymbol(new_name, exported, span))])

\* Hoist::fold_ident
fold_ident(node, h) ==
  LET c == h.collect
      imp == IF id(node) \in DOMAIN c.imports THEN Some(c.imports[id(node)]) ELSE NoneOf(None)
      static_import == imp.some /\ imp.v.source \notin c.non_static_requires
      h1 == IF static_import /\ imp.v.kind = "DynamicImport"
            THEN IF imp.v.specifier # "*"
                 THEN [h EXCEPT !.imported_symbols = Append(@,
                         ImportedSymbol(imp.v.source,
                                        ImportAsyncKeyName(imp.v.source, imp.v.specifier),
                                        imp.v.specifier, imp.v.loc))]
                 ELSE IF id(node) \in DOMAIN c.non_static_access
                 THEN [h EXCEPT !.imported_symbols = Append(@,
                         ImportedSymbol(imp.v.source, ImportAsyncName(imp.v.source),
                                        "*", imp.v.loc))]
                 ELSE h
            ELSE h
  IN IF static_import /\ imp.v.kind # "DynamicImport"
     THEN IF id(node) \in DOMAIN c.non_const_bindings
          THEN Ret(get_require_ident(node.sym), h)
          ELSE get_import_ident(h, node.span, node.ctxt, imp.v.source, imp.v.specifier, imp.v.loc)
     ELSE IF id(node) \in DOMAIN c.exports
     THEN IF c.should_wrap
          THEN Ret(node, [h1 EXCEPT !.exported_symbols = Append(@,
                            ExportedSymbol(node.sym, c.exports[id(node)], node.span))])
          ELSE get_export_ident(h1, node.span, c.exports[id(node)])
     ELSE IF node.sym = "exports" /\ id(node) \notin c.decls /\ ~c.should_wrap
     THEN get_export_ident([h1 EXCEPT !.self_references = @ \cup {"*"}], node.span, "*")
     ELSE IF node.sym = "global" /\ id(node) \notin c.decls
     THEN Ret(mkIdent("$parcel$global", node.ctxt, node.span), h1)
     ELSE IF node.ctxt = GlobalCtxt /\ id(node) \in c.decls /\ ~c.should_wrap
     THEN Ret(mkIdent("$" \o module_id \o "$var$" \o node.sym, node.ctxt, node.span), h1)
     ELSE Ret(node, h1)

RECURSIVE fold_expr(_, _), fold_exprs(_, _), fold_member_expr(_, _), fold_call_expr(_, _),
          fold_seq_expr(_, _), fold_seq_exprs(_, _, _), fold_assign_expr(_, _),
          fold_assign_children(_, _), fold_function(_, _), fold_class(_, _),
          fold_class_members(_, _), fold_getter_prop(_, _),
          fold_setter_prop(_, _), fold_prop(_, _), fold_prop_children(_, _),
          fold_props(_, _), fold_prop_name(_, _), fold_pat(_, _), fold_pats(_, _),
          fold_object_pat_prop(_, _), fold_object_pat_props(_, _),
          fold_stmt(_, _), fold_stmts(_, _), fold_var_declarator(_, _),
          fold_var_declarators(_, _), fold_module_item(_, _),
          fold_with(_, _, _)

\* FoldWith::fold_with: the method of Hoist for a node of type `ty`, the
\* default traversal where Hoist does not override it; for a ModuleItem, the
\* body of the loop of fold_module.  The folder is `&mut self`: its state is
\* read before the method is entered
fold_with(ty, node, x) ==
  IF x.in_function_scope \notin BOOLEAN THEN x
  ELSE
    CASE ty = "Expr" -> fold_expr(node, x)
      [] ty = "Exprs" -> fold_exprs(node, x)
      [] ty = "MemberExpr" -> fold_member_expr(node, x)
      [] ty = "CallExpr" -> fold_call_expr(node, x)
      [] ty = "SeqExpr" -> fold_seq_expr(node, x)
      [] ty = "AssignExpr" -> fold_assign_expr(node, x)
      [] ty = "Function" -> fold_function(node, x)
      [] ty = "Class" -> fold_class(node, x)
      [] ty = "ClassMembers" -> fold_class_members(node, x)
      [] ty = "GetterProp" -> fold_getter_prop(node, x)
      [] ty = "SetterProp" -> fold_setter_prop(node, x)
      [] ty = "Prop" -> fold_prop(node, x)
      [] ty = "Props" -> fold_props(node, x)
      [] ty = "PropName" -> fold_prop_name(node, x)
      [] ty = "Pat" -> fold_pat(node, x)
      [] ty = "Pats" -> fold_pats(node, x)
      [] ty = "ObjectPatProp" -> fold_object_pat_prop(node, x)
      [] ty = "ObjectPatProps" -> fold_object_pat_props(node, x)
      [] ty = "Stmt" -> fold_stmt(node, x)
      [] ty = "Stmts" -> fold_stmts(node, x)
      [] ty = "VarDeclarator" -> fold_var_declarator(node, x)
      [] ty = "VarDeclarators" -> fold_var_declarators(node, x)
      [] ty = "ModuleItem" -> fold_module_item(node, x)

\* Hoist::fold_expr
fold_expr(node, h) ==
  LET c == h.collect
  IN CASE node.t = "Member" -> fold_with("MemberExpr", node, h)
       [] node.t = "Call" ->
            LET req == match_require(node, c.decls)
                imp == match_import(node)
            IN IF req.some
               THEN get_import_ident(add_require(h, req.v), node.span, EmptyCtxt, req.v, "*", node.span)
               ELSE IF imp.some
               THEN LET name == ImportAsyncName(imp.v)
                        h1 == [add_require(h, imp.v) EXCEPT
                                 !.dynamic_imports = MapPut(@, name, imp.v)]
                        h2 == IF imp.v \in c.non_static_requires \/ c.should_wrap
                              THEN [h1 EXCEPT !.imported_symbols = Append(@,
                                      ImportedSymbol(imp.v, name, "*", node.span))]
                              ELSE h1
                    IN Ret(mkIdent(name, EmptyCtxt, node.span), h2)
               ELSE fold_with("CallExpr", node, h)
       [] node.t = "This" ->
            IF ~h.in_function_scope /\ c.is_esm
            THEN Ret(mkIdent("undefined", EmptyCtxt, DUMMY_SP), h)
            ELSE IF ~h.in_function_scope /\ ~c.should_wrap
            THEN get_export_ident([h EXCEPT !.self_references = @ \cup {"*"}], node.span, "*")
            ELSE Ret(node, h)
       [] node.t = "Unary" ->
            LET arg == node.arg
                free(sym) == arg.t = "Ident" /\ arg.sym = sym /\ id(arg) \notin c.decls
            IN IF node.op = "typeof" /\ free("require")
               THEN Ret([t |-> "Str", value |-> "function", span |-> node.span], h)
               ELSE IF node.op = "typeof" /\ free("module")
               THEN Ret([t |-> "Str", value |-> "object", span |-> node.span], h)
               ELSE LET r == fold_with("Expr", arg, h)
                    IN Ret([node EXCEPT !.arg = r.n], r.h)
       [] node.t = "Ident" -> fold_ident(node, h)
       [] node.t = "Assign" -> fold_with("AssignExpr", node, h)
       [] node.t = "Seq" -> fold_with("SeqExpr", node, h)
       [] node.t = "Fn" ->
            LET r == fold_with("Function", node.function, h)
            IN Ret([node EXCEPT !.function = r.n], r.h)
       [] node.t = "Class" ->
            LET r == fold_with("Class", node.class, h)
            IN Ret([node EXCEPT !.class = r.n], r.h)
       [] node.t = "Arrow" ->
            LET p == fold_with("Pats", node.params, h)
                b == IF node.body.t = "Block"
                     THEN LET s == fold_with("Stmts", node.body.stmts, p.h)
                          IN Ret([node.body EXCEPT !.stmts = s.n], s.h)
                     ELSE fold_with("Expr", node.body, p.h)
            IN Ret([node EXCEPT !.params = p.n, !.body = b.n], b.h)
       [] node.t = "Await" ->
            LET r == fold_with("Expr", node.arg, h)
            IN Ret([node EXCEPT !.arg = r.n], r.h)
       [] node.t = "Object" ->
            LET r == fold_with("Props", node.props, h)
            IN Ret([node EXCEPT !.props = r.n], r.h)
       [] OTHER -> Ret(node, h)

fold_exprs(exprs, h) ==
  IF exprs = <<>> THEN Ret(<<>>, h)
  ELSE LET r == fold_with("Expr", Head(exprs), h)
           rest == fold_with("Exprs", Tail(exprs), r.h)
       IN Ret(<<r.n>> \o rest.n, rest.h)

\* Fold::fold_call_expr (not overridden): the callee, then the arguments
fold_call_expr(node, h) ==
  LET f == fold_with("Expr", node.callee, h)
      a == fold_with("Exprs", node.args, f.h)
  IN Ret([node EXCEPT !.callee = f.n, !.args = a.n], a.h)

\* Hoist::fold_expr, the arm of Expr::Member
fold_member_expr(member, h) ==
  LET c == h.collect
      prop == member.prop
      obj == member.obj
      has_key == (prop.t = "Ident" /\ ~member.computed) \/ prop.t = "Str"
      key == IF prop.t = "Ident" THEN prop.sym ELSE prop.value
      children ==
        LET o == fold_with("Expr", obj, h)
            p == fold_with("Expr", prop, o.h)
        IN Ret([member EXCEPT !.obj = o.n, !.prop = p.n], p.h)
      obj_only(x) ==
        LET o == fold_with("Expr", obj, x)
        IN Ret([member EXCEPT !.obj = o.n], o.h)
      export_key(x) ==
        get_export_ident([x EXCEPT !.self_references = @ \cup {key}], member.span, key)
  IN IF ~c.should_wrap /\ match_member_expr(member, <<"module", "exports">>, c.decls)
     THEN get_export_ident([h EXCEPT !.self_references = @ \cup {"*"}], member.span, "*")
     ELSE IF ~c.should_wrap /\ match_member_expr(member, <<"module", "hot">>, c.decls)
     THEN Ret(mkNull(member.span), h)
     ELSE IF ~has_key THEN children
     ELSE CASE obj.t = "Ident" ->
                 LET imp == IF id(obj) \in DOMAIN c.imports
                            THEN Some(c.imports[id(obj)]) ELSE NoneOf(None)
                     static_ns == /\ imp.some
                                  /\ imp.v.specifier = "*"
                                  /\ id(obj) \notin DOMAIN c.non_static_access
                                  /\ id(obj) \notin DOMAIN c.non_const_bindings
                                  /\ imp.v.source \notin c.non_static_requires
                     h1 == IF static_ns /\ imp.v.kind = "DynamicImport"
                           THEN [h EXCEPT !.imported_symbols = Append(@,
                                   ImportedSymbol(imp.v.source,
                                                  ImportAsyncKeyName(imp.v.source, key),
                                                  key, member.span))]
                           ELSE h
                 IN IF static_ns /\ imp.v.kind # "DynamicImport"
                    THEN get_import_ident(h, member.span, EmptyCtxt, imp.v.source, key, member.span)
                    ELSE IF /\ obj.sym = "exports"
                            /\ id(obj) \notin c.decls
                            /\ c.static_cjs_exports
                            /\ ~c.should_wrap
                    THEN export_key(h1)
                    ELSE obj_only(h1)
            [] obj.t = "Call" ->
                 LET req == match_require(obj, c.decls)
                 IN IF req.some
                    THEN get_import_ident(add_require(h, req.v), member.span, EmptyCtxt, req.v, key,
                                          member.span)
                    ELSE obj_only(h)
            [] obj.t = "Member" ->
                 IF /\ c.static_cjs_exports
                    /\ ~c.should_wrap
                    /\ match_member_expr(obj, <<"module", "exports">>, c.decls)
                 THEN export_key(h)
                 ELSE obj_only(h)
            [] obj.t = "This" ->
                 IF /\ c.static_cjs_exports
                    /\ ~c.should_wrap
                    /\ ~h.in_function_scope
                    /\ ~c.is_esm
                 THEN export_key(h)
                 ELSE obj_only(h)
            [] OTHER -> obj_only(h)

\* the operands folded as any list of expressions, none wrapped
fold_seq_exprs_plain(exprs, i, h) == fold_with("Exprs", exprs, h)

\* Hoist::fold_seq_expr, the map over the operands
fold_seq_exprs(exprs, i, h) ==
  IF i > Len(exprs) THEN Ret(<<>>, h)
  ELSE LET r == fold_with("Expr", exprs[i], h)
           e == IF i # Len(exprs) /\ match_require(exprs[i], h.collect.decls).some
                THEN mkUnary("!", r.n, DUMMY_SP)
                ELSE r.n
           rest == fold_seq_exprs(exprs, i + 1, r.h)
       IN Ret(<<e>> \o rest.n, rest.h)

\* Hoist::fold_seq_expr
fold_seq_expr(node, h) ==
  LET r == fold_seq_exprs(node.exprs, 1, h)
  IN Ret([node EXCEPT !.exprs = r.n], r.h)

\* Fold::fold_assign_expr (the default): the target, then the value
fold_assign_children(node, h) ==
  LET l == fold_with("Pat", node.left, h)
      r == fold_with("Expr", node.right, l.h)
  IN Ret([node EXCEPT !.left = l.n, !.right = r.n], r.h)

\* unreachable!(message): the thread panics.  The value stands where the
\* node that was not returned would be, until the loop of fold_module ends
Panic(message) ==
  [t |-> "Panic", message |-> "internal error: entered unreachable code: " \o message]

\* Hoist::fold_assign_expr
fold_assign_expr(node, h) ==
  LET c == h.collect
      member == node.left.expr
      obj == member.obj
      is_cjs_exports ==
        CASE obj.t = "Member" -> match_member_expr(obj, <<"module", "exports">>, c.decls)
          [] obj.t = "Ident" -> obj.sym = "exports" /\ id(obj) \notin c.decls
          [] OTHER -> FALSE
  IN IF c.should_wrap THEN fold_assign_children(node, h)
     ELSE IF node.left.t # "PatExpr" THEN fold_assign_children(node, h)
     ELSE IF member.t # "Member" THEN fold_assign_children(node, h)
     ELSE IF match_member_expr(member, <<"module", "exports">>, c.decls)
     THEN LET i == get_export_ident(h, member.span, "*")
              r == fold_with("Expr", node.right, i.h)
          IN Ret([node EXCEPT !.left = patIdent(i.n), !.right = r.n], r.h)
     ELSE IF is_cjs_exports
     THEN LET prop == member.prop
              static_key == (prop.t = "Ident" /\ ~member.computed) \/ prop.t = "Str"
              key == IF c.static_cjs_exports
                     THEN (IF prop.t = "Ident" THEN prop.sym ELSE prop.value)
                     ELSE "*"
              i == get_export_ident(h, member.span, key)
          IN IF c.static_cjs_exports /\ ~static_key
             THEN Ret(Panic("Unexpected non-static CJS export"), h)
             ELSE IF c.static_cjs_exports
             THEN LET r == fold_with("Expr", node.right,
                             [i.h EXCEPT !.export_decls = @ \cup {i.n.sym}])
                  IN Ret([node EXCEPT !.left = patIdent(i.n), !.right = r.n], r.h)
             ELSE LET p == fold_with("Expr", member.prop, i.h)
                      r == fold_with("Expr", node.right, p.h)
                  IN Ret([node EXCEPT
                            !.left = patExpr(mkMember(i.n, p.n, member.computed, member.span)),
                            !.right = r.n],
                         r.h)
     ELSE fold_assign_children(node, h)

\* hoist_visit_fn!(fold_function, Function)
fold_function(node, h) ==
  LET p == fold_with("Pats", node.params, [h EXCEPT !.in_function_scope = TRUE])
      b == fold_with("Stmts", node.body, p.h)
  IN Ret([node EXCEPT !.params = p.n, !.body = b.n],
         [b.h EXCEPT !.in_function_scope = h.in_function_scope])

\* hoist_visit_fn!(fold_class, Class): the members, then the heritage
fold_class(node, h) ==
  LET b == fold_with("ClassMembers", node.body, [h EXCEPT !.in_function_scope = TRUE])
      s == IF node.super_class = None THEN Ret(None, b.h)
           ELSE fold_with("Expr", node.super_class, b.h)
  IN Ret([node EXCEPT !.body = b.n, !.super_class = s.n],
         [s.h EXCEPT !.in_function_scope = h.in_function_scope])

\* Fold::fold_class_members (not overridden), over methods: key, then function
fold_class_members(members, h) ==
  IF members = <<>> THEN Ret(<<>>, h)
  ELSE LET m == Head(members)
           k == fold_with("PropName", m.key, h)
           f == fold_with("Function", m.function, k.h)
           rest == fold_with("ClassMembers", Tail(members), f.h)
       IN Ret(<<[m EXCEPT !.key = k.n, !.function = f.n]>> \o rest.n, rest.h)

\* hoist_visit_fn!(fold_getter_prop, GetterProp)
fold_getter_prop(node, h) ==
  LET k == fold_with("PropName", node.key, [h EXCEPT !.in_function_scope = TRUE])
      b == fold_with("Stmts", node.body, k.h)
  IN Ret([node EXCEPT !.key = k.n, !.body = b.n],
         [b.h EXCEPT !.in_function_scope = h.in_function_scope])

\* hoist_visit_fn!(fold_setter_prop, SetterProp)
fold_setter_prop(node, h) ==
  LET k == fold_with("PropName", node.key, [h EXCEPT !.in_function_scope = TRUE])
      p == fold_with("Pat", node.param, k.h)
      b == fold_with("Stmts", node.body, p.h)
  IN Ret([node EXCEPT !.key = k.n, !.param = p.n, !.body = b.n],
         [b.h EXCEPT !.in_function_scope = h.in_function_scope])

\* Fold::fold_prop (the default): dispatch on the property
fold_prop_children(node, h) ==
  CASE node.t = "Shorthand" ->
         LET i == fold_ident(node.id, h)
         IN Ret([node EXCEPT !.id = i.n], i.h)
    [] node.t = "KeyValue" ->
         LET k == fold_with("PropName", node.key, h)
             v == fold_with("Expr", node.value, k.h)
         IN Ret([node EXCEPT !.key = k.n, !.value = v.n], v.h)
    [] node.t = "Getter" -> fold_with("GetterProp", node, h)
    [] node.t = "Setter" -> fold_with("SetterProp", node, h)
    [] OTHER ->
         LET k == fold_with("PropName", node.key, h)
             f == fold_with("Function", node.function, k.h)
         IN Ret([node EXCEPT !.key = k.n, !.function = f.n], f.h)

\* a fold_prop that keeps a shorthand property a shorthand
fold_prop_plain(node, h) == fold_prop_children(node, h)

\* Hoist::fold_prop
fold_prop(node, h) ==
  IF h.collect.should_wrap THEN fold_prop_children(node, h)
  ELSE IF node.t = "Shorthand"
  THEN LET i == fold_ident(node.id, h)
       IN Ret(mkKeyValue(pnIdent(node.id.sym), i.n), i.h)
  ELSE fold_prop_children(node, h)

fold_props(props, h) ==
  IF props = <<>> THEN Ret(<<>>, h)
  ELSE LET r == fold_with("Prop", Head(props), h)
           rest == fold_with("Props", Tail(props), r.h)
       IN Ret(<<r.n>> \o rest.n, rest.h)

\* Hoist::fold_prop_name
fold_prop_name(node, h) ==
  IF node.t = "PnComputed"
  THEN LET e == fold_with("Expr", node.expr, h)
       IN Ret(pnComputed(e.n), e.h)
  ELSE Ret(node, h)

\* Fold::fold_pat (not overridden): dispatch on the pattern
fold_pat(node, h) ==
  CASE node.t = "PatIdent" ->
         LET i == fold_ident(node.id, h)
         IN Ret(patIdent(i.n), i.h)
    [] node.t = "PatArray" ->
         LET e == fold_with("Pats", node.elems, h)
         IN Ret([node EXCEPT !.elems = e.n], e.h)
    [] node.t = "PatObject" ->
         LET p == fold_with("ObjectPatProps", node.props, h)
         IN Ret([node EXCEPT !.props = p.n], p.h)
    [] node.t = "PatAssign" ->
         LET l == fold_with("Pat", node.left, h)
             r == fold_with("Expr", node.right, l.h)
         IN Ret([node EXCEPT !.left = l.n, !.right = r.n], r.h)
    [] node.t = "PatRest" ->
         LET a == fold_with("Pat", node.arg, h)
         IN Ret([node EXCEPT !.arg = a.n], a.h)
    [] OTHER ->
         LET e == fold_with("Expr", node.expr, h)
         IN Ret(patExpr(e.n), e.h)

fold_pats(pats, h) ==
  IF pats = <<>> THEN Ret(<<>>, h)
  ELSE LET r == fold_with("Pat", Head(pats), h)
           rest == fold_with("Pats", Tail(pats), r.h)
       IN Ret(<<r.n>> \o rest.n, rest.h)

\* Hoist::fold_object_pat_prop
fold_object_pat_prop(node, h) ==
  CASE node.t = "KeyValuePat" ->
         LET k == fold_with("PropName", node.key, h)
             v == fold_with("Pat", node.value, k.h)
         IN Ret(ppKeyValue(k.n, v.n), v.h)
    [] node.t = "AssignPatProp" ->
         LET i == fold_ident(node.key, h)
             v == IF node.value = None THEN Ret(None, i.h) ELSE fold_with("Expr", node.value, i.h)
         IN IF h.collect.should_wrap
            THEN Ret(ppAssign(i.n, v.n), v.h)
            ELSE Ret(ppKeyValue(pnIdent(node.key.sym),
                                IF node.value = None THEN patIdent(i.n)
                                ELSE patAssign(patIdent(i.n), v.n, DUMMY_SP)),
                     v.h)
    [] OTHER ->
         LET a == fold_with("Pat", node.arg, h)
         IN Ret(ppRest(a.n), a.h)

fold_object_pat_props(props, h) ==
  IF props = <<>> THEN Ret(<<>>, h)
  ELSE LET r == fold_with("ObjectPatProp", Head(props), h)
           rest == fold_with("ObjectPatProps", Tail(props), r.h)
       IN Ret(<<r.n>> \o rest.n, rest.h)

\* Fold::fold_var_declarator (not overridden): the name, then the initializer
fold_var_declarator(node, h) ==
  LET n == fold_with("Pat", node.name, h)
      i == IF node.init = None THEN Ret(None, n.h) ELSE fold_with("Expr", node.init, n.h)
  IN Ret([node EXCEPT !.name = n.n, !.init = i.n], i.h)

fold_var_declarators(decls, h) ==
  IF decls = <<>> THEN Ret(<<>>, h)
  ELSE LET r == fold_with("VarDeclarator", Head(decls), h)
           rest == fold_with("VarDeclarators", Tail(decls), r.h)
       IN Ret(<<r.n>> \o rest.n, rest.h)

\* Fold::fold_stmt (not overridden): dispatch on the statement
fold_stmt(node, h) ==
  CASE node.t = "ExprStmt" ->
         LET e == fold_with("Expr", node.expr, h)
         IN Ret([node EXCEPT !.expr = e.n], e.h)
    [] node.t = "VarDecl" ->
         LET d == fold_with("VarDeclarators", node.decls, h)
         IN Ret([node EXCEPT !.decls = d.n], d.h)
    [] node.t = "Return" ->
         IF node.arg = None THEN Ret(node, h)
         ELSE LET a == fold_with("Expr", node.arg, h)
              IN Ret([node EXCEPT !.arg = a.n], a.h)
    [] OTHER ->
         LET i == fold_ident(node.ident, h)
             f == fold_with("Function", node.function, i.h)
         IN Ret([node EXCEPT !.ident = i.n, !.function = f.n], f.h)

fold_stmts(stmts, h) ==
  IF stmts = <<>> THEN Ret(<<>>, h)
  ELSE LET r == fold_with("Stmt", Head(stmts), h)
           rest == fold_with("Stmts", Tail(stmts), r.h)
       IN Ret(<<r.n>> \o rest.n, rest.h)

\* Collect::get_non_const_binding_idents; the HashSet<Ident> it fills
RECURSIVE get_non_const_binding_idents(_, _), get_non_const_binding_props(_, _),
          get_non_const_binding_elems(_, _)
get_non_const_binding_idents(c, node) ==
  CASE node.t = "PatIdent" ->
         IF id(node.id) \in DOMAIN c.non_const_bindings THEN {node.id} ELSE {}
    [] node.t = "PatObject" -> get_non_const_binding_props(c, node.props)
    [] node.t = "PatArray" -> get_non_const_binding_elems(c, node.elems)
    [] OTHER -> {}

get_non_const_binding_props(c, props) ==
  IF props = <<>> THEN {}
  ELSE LET prop == Head(props)
           here == CASE prop.t = "KeyValuePat" -> get_non_const_binding_idents(c, prop.value)
                     [] prop.t = "AssignPatProp" ->
                          IF id(prop.key) \in DOMAIN c.non_const_bindings
                          THEN {prop.key} ELSE {}
                     [] OTHER -> get_non_const_binding_idents(c, prop.arg)
       IN here \cup get_non_const_binding_props(c, Tail(props))

get_non_const_binding_elems(c, elems) ==
  IF elems = <<>> THEN {}
  ELSE get_non_const_binding_idents(c, Head(elems))
       \cup get_non_const_binding_elems(c, Tail(elems))

\* the orders in which a HashSet can be drained
RECURSIVE Orders(_)
Orders(S) ==
  IF S = {} THEN {<<>>}
  ELSE UNION {{<<x>> \o rest : rest \in Orders(S \ {x})} : x \in S}

\* Hoist::handle_non_const_require, the loop over the identifiers, `idents`
\* being the HashSet in the order of its iterator
RECURSIVE handle_non_const_idents(_, _, _, _)
handle_non_const_idents(h, idents, v, source) ==
  IF idents = <<>> THEN h
  ELSE LET ident == Head(idents)
           imports == h.collect.imports
           h1 == IF id(ident) \in DOMAIN imports
                 THEN LET require_id == get_require_ident(ident.sym)
                          import_id == get_import_ident(h, v.span, EmptyCtxt, source,
                                                        imports[id(ident)].specifier, v.span)
                      IN [import_id.h EXCEPT !.module_items = Append(@,
                            mkVarDecl("var",
                                      <<mkDeclarator(patIdent(require_id), import_id.n,
                                                     DUMMY_SP)>>,
                                      DUMMY_SP))]
                 ELSE h
       IN handle_non_const_idents(h1, Tail(idents), v, source)

\* Hoist::handle_non_const_require: the states it can leave, one for each
\* order in which the HashSet of the non-const identifiers can be iterated
handle_non_const_require(h, v, source) ==
  {handle_non_const_idents(h, order, v, source) :
     order \in Orders(get_non_const_binding_idents(h.collect, v.name))}

\* Vec::push where fold_module inserts: the pending declarators would follow
\* what the declarator after them hoisted
PushAt(s, i, e) == Append(s, e)

\* Vec::insert
InsertAt(s, i, e) == SubSeq(s, 1, i) \o <<e>> \o SubSeq(s, i + 1, Len(s))

\* Hoist::fold_module, the arm of Decl::Var: the loop over the declarators `vs`
\* of `var`, `decls` being the declarators not yet pushed; the states the
\* loop can end in
RECURSIVE fold_module_var(_, _, _, _)
fold_module_var(var, vs, decls, h) ==
  LET c == h.collect
      flush(items) == Append(items, mkVarDecl(var.kind, decls, var.span))
  IN IF vs = <<>>
     THEN {IF decls # <<>> THEN [h EXCEPT !.module_items = flush(@)] ELSE h}
     ELSE
       LET v == Head(vs)
           init == v.init
           req == IF init = None THEN NoneOf("") ELSE match_require(init, c.decls)
           mreq == IF init # None /\ init.t = "Member"
                   THEN match_require(init.obj, c.decls) ELSE NoneOf("")
           source == IF req.some /\ req.v \notin c.non_static_requires THEN req
                     ELSE IF mreq.some /\ mreq.v \notin c.non_static_requires THEN mreq
                     ELSE NoneOf("")
       IN IF source.some
          THEN LET h1 == IF decls # <<>> THEN [h EXCEPT !.module_items = flush(@)] ELSE h
                   h2 == add_require(h1, source.v)
               IN UNION {fold_module_var(var, Tail(vs), <<>>, h3) :
                           h3 \in handle_non_const_require(h2, v, source.v)}
          ELSE LET items_len == Len(h.module_items)
                   d == fold_with("VarDeclarator", v, h)
               IN IF Len(d.h.module_items) > items_len /\ decls # <<>>
                  THEN fold_module_var(var, Tail(vs), <<d.n>>,
                         [d.h EXCEPT !.module_items =
                            InsertAt(@, items_len, mkVarDecl(var.kind, decls, var.span))])
                  ELSE fold_module_var(var, Tail(vs), Append(decls, d.n), d.h)

\* Hoist::fold_module, the arm of ModuleDecl::Import: the loop over the specifiers
RECURSIVE fold_import_specifiers(_, _)
fold_import_specifiers(specifiers, h) ==
  IF specifiers = <<>> THEN h
  ELSE LET local == Head(specifiers).local
           ncb == h.collect.non_const_bindings
           h1 == IF id(local) \in DOMAIN ncb
                 THEN LET spans == ncb[id(local)]
                          highlights ==
                            [i \in 1..Len(spans) |-> [loc |-> spans[i], message |-> ""]]
                            \o <<[loc |-> local.span,
                                  message |-> "Originally imported here"]>>
                      IN [h EXCEPT !.diagnostics = Append(@,
                            [message |-> "Assignment to an import specifier is not allowed",
                             code_highlights |-> highlights,
                             severity |-> "Error"])]
                 ELSE h
       IN fold_import_specifiers(Tail(specifiers), h1)

\* Hoist::fold_module, the arm of ModuleDecl::ExportNamed: the loop over the specifiers
RECURSIVE fold_export_specifiers(_, _, _)
fold_export_specifiers(specifiers, src, h) ==
  IF specifiers = <<>> THEN h
  ELSE
    LET s == Head(specifiers)
        c == h.collect
        exported == IF s.exported = "" THEN s.orig.sym ELSE s.exported
        h1 ==
          IF src # ""
          THEN [h EXCEPT !.re_exports = Append(@,
                  CASE s.k = "Named" -> ImportedSymbol(src, exported, s.orig.sym, s.span)
                    [] s.k = "Default" -> ImportedSymbol(src, s.orig.sym, "default", s.orig.span)
                    [] OTHER -> ImportedSymbol(src, s.orig.sym, "*", s.span))]
          ELSE IF s.k # "Named" THEN h
          ELSE IF id(s.orig) \in DOMAIN c.imports
          THEN [h EXCEPT !.re_exports = Append(@,
                  ImportedSymbol(c.imports[id(s.orig)].source, exported,
                                 c.imports[id(s.orig)].specifier, s.span))]
          ELSE LET orig_exported == c.exports[id(s.orig)]
                   i == IF c.should_wrap
                        THEN Ret(mkIdent(orig_exported, EmptyCtxt, DUMMY_SP), h)
                        ELSE get_export_ident(h, DUMMY_SP, orig_exported)
               IN [i.h EXCEPT !.exported_symbols = Append(@,
                     ExportedSymbol(i.n.sym, exported, s.span))]
    IN fold_export_specifiers(Tail(specifiers), src, h1)

\* Hoist::fold_module, the body of the loop over the items of the module:
\* the states it can leave, more than one only where a HashSet is iterated
fold_module_item(item, h) ==
  LET c == h.collect
      push(x, n) == [x EXCEPT !.module_items = Append(@, n)]
      hoist_import(x, src) ==
        [x EXCEPT !.hoisted_imports = Append(@, SideEffectImport(src))]
  IN CASE item.t = "Import" ->
            {fold_import_specifiers(item.specifiers, hoist_import(h, item.src))}
       [] item.t = "ExportNamed" ->
            {fold_export_specifiers(item.specifiers, item.src,
               IF item.src # "" THEN hoist_import(h, item.src) ELSE h)}
       [] item.t = "ExportAll" ->
            {[hoist_import(h, item.src) EXCEPT !.re_exports = Append(@,
                ImportedSymbol(item.src, "*", "*", item.span))]}
       [] item.t = "ExportDefaultExpr" ->
            LET ident == get_export_ident(h, item.span, "default")
                init == fold_with("Expr", item.expr, ident.h)
            IN {push(init.h, mkVarDecl("var",
                  <<mkDeclarator(patIdent(ident.n), init.n, DUMMY_SP)>>, DUMMY_SP))}
       [] item.t = "ExportDefaultDecl" ->
            LET ident == IF c.should_wrap /\ item.ident # None
                         THEN Ret(item.ident, h)
                         ELSE get_export_ident(h, DUMMY_SP, "default")
                function == fold_with("Function", item.function, ident.h)
            IN {push(function.h, mkFnDecl(ident.n, function.n))}
       [] item.t = "ExportDecl" ->
            LET d == fold_with("Stmt", item.decl, h)
            IN {push(d.h, d.n)}
       [] item.t = "VarDecl" -> fold_module_var(item, item.decls, <<>>, h)
       [] item.t = "ExprStmt" ->
            LET req == match_require(item.expr, c.decls)
                d == fold_with("Expr", item.expr, h)
            IN IF req.some THEN {add_require(h, req.v)}
               ELSE {push(d.h, mkExprStmt(d.n, item.span))}
       [] OTHER ->
            LET d == fold_with("Stmt", item, h)
            IN {push(d.h, d.n)}

\* a splice at the end of the body in place of the front
fold_module_end_back(h, order, span) ==
  [h EXCEPT !.export_decls = {},
            !.hoisted_imports = <<>>,
            !.module_items = @ \o h.hoisted_imports \o
              [i \in 1..Len(order) |->
                 mkVarDecl("var",
                           <<mkDeclarator(patIdent(mkIdent(order[i], EmptyCtxt, DUMMY_SP)),
                                          None, span)>>,
                           span)]]

\* Hoist::fold_module, after the loop: `order` is the order in which the
\* HashSet export_decls is drained, `span` is node.span, the span of the module
fold_module_end(h, order, span) ==
  LET export_vars ==
        [i \in 1..Len(order) |->
           mkVarDecl("var",
                     <<mkDeclarator(patIdent(mkIdent(order[i], EmptyCtxt, DUMMY_SP)),
                                    None, span)>>,
                     span)]
  IN [h EXCEPT !.export_decls = {},
               !.hoisted_imports = <<>>,
               !.module_items = h.hoisted_imports \o export_vars \o @]

\* a summary that reports should_wrap as the Rewriter first saw it
get_result_unwrapped(h) ==
  [imported_symbols |-> h.imported_symbols,
   exported_symbols |-> h.exported_symbols,
   re_exports |-> h.re_exports,
   self_references |-> h.self_references,
   dynamic_imports |-> h.dynamic_imports,
   wrapped_requires |-> h.collect.wrapped_requires,
   static_cjs_exports |-> h.collect.static_cjs_exports,
   has_cjs_exports |-> h.collect.has_cjs_exports,
   is_esm |-> h.collect.is_esm,
   should_wrap |-> FALSE]

\* Hoist::get_result
get_result(h) ==
  [imported_symbols |-> h.imported_symbols,
   exported_symbols |-> h.exported_symbols,
   re_exports |-> h.re_exports,
   self_references |-> h.self_references,
   dynamic_imports |-> h.dynamic_imports,
   wrapped_requires |-> h.collect.wrapped_requires,
   static_cjs_exports |-> h.collect.static_cjs_exports,
   has_cjs_exports |-> h.collect.has_cjs_exports,
   is_esm |-> h.collect.is_esm,
   should_wrap |-> h.collect.should_wrap]

\* Bailout::to_diagnostic
to_diagnostic(bailout) ==
  [message |-> bailout.reason,
   code_highlights |-> <<[loc |-> bailout.loc, message |-> ""]>>,
   severity |-> "SourceError"]

\* a return that rejects the module when the Analyzer bailed out
hoist_return_strict(h) ==
  IF h.diagnostics # <<>> \/ (h.collect.bailouts.some /\ h.collect.bailouts.v # <<>>)
  THEN [t |-> "Err", diagnostics |-> h.diagnostics]
  ELSE [t |-> "Ok", module |-> h.module_items, result |-> get_result(h),
        diagnostics |-> h.diagnostics]

\* hoist, after the two traversals
hoist_return(h) ==
  IF h.diagnostics # <<>>
  THEN [t |-> "Err", diagnostics |-> h.diagnostics]
  ELSE LET bailouts == h.collect.bailouts
           diagnostics ==
             IF bailouts.some
             THEN h.diagnostics \o [i \in 1..Len(bailouts.v) |-> to_diagnostic(bailouts.v[i])]
             ELSE h.diagnostics
       IN [t |-> "Ok", module |-> h.module_items, result |-> get_result(h),
           diagnostics |-> diagnostics]

-----------------------------------------------------------------------------
(* Inputs: the catalogue of top-level items.  Item k on line l; the second *)
(* component of a span is the rank of the node's location within the line. *)

\* an identifier of the top-level scope, a free identifier included
G(sym, l, r) == mkIdent(sym, GlobalCtxt, <<l, r>>)
\* a non-computed property name: the resolver leaves it unmarked
P(sym, l, r) == mkIdent(sym, EmptyCtxt, <<l, r>>)
\* an identifier bound inside a function
L(sym, l, r) == mkIdent(sym, FnCtxt, <<l, r>>)

Stmt(expr, l) == mkExprStmt(expr, <<l, 5>>)
\* console.log(args)
Log(args, l) ==
  Stmt(mkCall(mkMember(G("console", l, 1), P("log", l, 6), FALSE, <<l, 2>>), args, <<l, 3>>), l)
\* exports.key
ExportsDot(key, l, r) == mkMember(G("exports", l, r), P(key, l, r + 5), FALSE, <<l, r + 1>>)
\* module.exports
ModuleExports(l, r) == mkMember(G("module", l, r), P("exports", l, r + 5), FALSE, <<l, r + 1>>)
\* import('dyn')
ImportDyn(l, r) == mkCall(mkIdent("import", EmptyCtxt, <<l, r>>), <<mkStr("dyn")>>, <<l, r + 1>>)
\* require(src)
Require(src, l, r) == mkCall(G("require", l, r), <<mkStr(src)>>, <<l, r + 1>>)

\* import {x} from 'other'
ImportX(l) == mkImport("other", <<mkImportSpec("Named", G("x", l, 2), "", <<l, 2>>)>>)
\* export {foo} from 'bar'
ReExportFoo(l) == mkExportNamed("bar", <<mkExportSpec("Named", G("foo", l, 2), "", <<l, 2>>)>>)
\* export * from 'bar'
ExportAllBar(l) == mkExportAll("bar", <<l, 1>>)
\* export default 2
ExportDefault(l) == mkExportDefaultExpr(mkNum(2), <<l, 1>>)
\* export var y = 2
ExportVarY(l) ==
  mkExportDecl(mkVarDecl("var", <<mkDeclarator(patIdent(G("y", l, 3)), mkNum(2), <<l, 3>>)>>,
                         <<l, 2>>))
\* require('a');
RequireStmt(l) == Stmt(Require("a", l, 1), l)
\* console.log(require('b'))
LogRequire(l) == Log(<<Require("b", l, 10)>>, l)
\* exports.foo = 2
ExportsFooAssign(l) == Stmt(mkAssign(patExpr(ExportsDot("foo", l, 1)), mkNum(2), <<l, 3>>), l)
\* console.log(exports.foo)
LogExportsFoo(l) == Log(<<ExportsDot("foo", l, 10)>>, l)
\* module.exports.bar = 3
ModuleExportsBar(l) ==
  Stmt(mkAssign(patExpr(mkMember(ModuleExports(l, 1), P("bar", l, 7), FALSE, <<l, 3>>)),
                mkNum(3), <<l, 4>>), l)
\* console.log(module.exports.bar)
LogModuleExportsBar(l) ==
  Log(<<mkMember(ModuleExports(l, 10), P("bar", l, 17), FALSE, <<l, 12>>)>>, l)
\* exports[k] = 1
ExportsComputed(l) ==
  Stmt(mkAssign(patExpr(mkMember(G("exports", l, 1), G("k", l, 6), TRUE, <<l, 2>>)),
                mkNum(1), <<l, 3>>), l)
\* exports.global = 2
ExportsGlobal(l) == Stmt(mkAssign(patExpr(ExportsDot("global", l, 1)), mkNum(2), <<l, 3>>), l)
\* exports.a.b = 1
ExportsChain(l) ==
  Stmt(mkAssign(patExpr(mkMember(ExportsDot("a", l, 1), P("b", l, 7), FALSE, <<l, 3>>)),
                mkNum(1), <<l, 4>>), l)
\* module.exports[k].c = 1
ModuleExportsChain(l) ==
  Stmt(mkAssign(
         patExpr(mkMember(mkMember(ModuleExports(l, 1), G("k", l, 7), TRUE, <<l, 3>>),
                          P("c", l, 8), FALSE, <<l, 4>>)),
         mkNum(1), <<l, 4>>), l)
\* console.log(exports)
LogExports(l) == Log(<<G("exports", l, 10)>>, l)
\* this.foo = 1
ThisFoo(l) ==
  Stmt(mkAssign(patExpr(mkMember(mkThis(<<l, 1>>), P("foo", l, 6), FALSE, <<l, 2>>)),
                mkNum(1), <<l, 3>>), l)
\* [exports.foo] = arr
DestructExports(l) ==
  Stmt(mkAssign(patArray(<<patExpr(ExportsDot("foo", l, 6))>>, <<l, 1>>), G("arr", l, 12),
                <<l, 2>>), l)
\* x = 1
AssignX(l) == Stmt(mkAssign(patIdent(G("x", l, 1)), mkNum(1), <<l, 2>>), l)
\* [a = (b = 1), x] = arr
NestedAssign(l) ==
  Stmt(mkAssign(
         patArray(<<patAssign(patIdent(G("a", l, 6)),
                              mkAssign(patIdent(G("b", l, 8)), mkNum(1), <<l, 9>>),
                              <<l, 7>>),
                    patIdent(G("x", l, 10))>>, <<l, 1>>),
         G("arr", l, 12), <<l, 2>>), l)
\* exports = {}
ExportsReassign(l) ==
  Stmt(mkAssign(patIdent(G("exports", l, 1)), mkObject(<<>>), <<l, 2>>), l)
\* return;
TopReturn(l) == mkReturn(None, <<l, 1>>)
\* function f() { return exports.foo; }
FnReturn(l) ==
  mkFnDecl(G("f", l, 2), mkFunction(<<>>, <<mkReturn(ExportsDot("foo", l, 4), <<l, 3>>)>>))
\* ({get a() { return 1; }})
GetterReturn(l) ==
  Stmt(mkObject(<<mkGetter(pnIdent("a"), <<mkReturn(mkNum(1), <<l, 3>>)>>)>>), l)
\* eval('1')
EvalCall(l) == Stmt(mkCall(G("eval", l, 1), <<mkStr("1")>>, <<l, 2>>), l)
\* console.log(module.id.foo)
ModuleChain(l) ==
  Log(<<mkMember(mkMember(G("module", l, 10), P("id", l, 14), FALSE, <<l, 11>>),
                 P("foo", l, 15), FALSE, <<l, 12>>)>>, l)
\* console.log(module)
LogModule(l) == Log(<<G("module", l, 10)>>, l)
\* console.log(typeof module, module.hot)
TypeofModule(l) ==
  Log(<<mkUnary("typeof", G("module", l, 11), <<l, 10>>),
        mkMember(G("module", l, 12), P("hot", l, 14), FALSE, <<l, 13>>)>>, l)
\* import('dyn').then(({...r}) => r)
DynThenRest(l) ==
  Stmt(mkCall(mkMember(ImportDyn(l, 1), P("then", l, 6), FALSE, <<l, 3>>),
              <<mkArrow(<<patObject(<<ppRest(patIdent(L("r", l, 8)))>>, <<l, 7>>)>>,
                        L("r", l, 9))>>,
              <<l, 4>>), l)
\* import('dyn').then(() => 1)
DynThenNoParam(l) ==
  Stmt(mkCall(mkMember(ImportDyn(l, 1), P("then", l, 6), FALSE, <<l, 3>>),
              <<mkArrow(<<>>, mkNum(1))>>, <<l, 4>>), l)
\* const {...r} = await import('dyn')
DynAwaitRest(l) ==
  mkVarDecl("const",
            <<mkDeclarator(patObject(<<ppRest(patIdent(G("r", l, 4)))>>, <<l, 3>>),
                           mkAwait(ImportDyn(l, 6)), <<l, 2>>)>>,
            <<l, 1>>)

Items(l) ==
  << ImportX(l), ReExportFoo(l), ExportAllBar(l), ExportDefault(l), ExportVarY(l),
     RequireStmt(l), LogRequire(l), ExportsFooAssign(l), LogExportsFoo(l),
     ModuleExportsBar(l), LogModuleExportsBar(l), ExportsComputed(l), ExportsGlobal(l),
     ExportsChain(l), ModuleExportsChain(l), LogExports(l), ThisFoo(l), DestructExports(l),
     AssignX(l), NestedAssign(l), ExportsReassign(l), TopReturn(l), FnReturn(l),
     GetterReturn(l), EvalCall(l), ModuleChain(l), LogModule(l), TypeofModule(l),
     DynThenRest(l), DynThenNoParam(l), DynAwaitRest(l) >>

NumItems == Len(Items(1))

\* the strictly increasing sequences of at most n catalogue indices
RECURSIVE IncSeqs(_)
IncSeqs(n) ==
  IF n = 0 THEN {<<>>}
  ELSE LET shorter == IncSeqs(n - 1)
       IN shorter \cup
          {Append(s, k) : <<s, k>> \in
             {p \in shorter \X (1..NumItems) :
                Len(p[1]) = n - 1 /\ (p[1] = <<>> \/ p[1][Len(p[1])] < p[2])}}

Reverse(s) == [i \in 1..Len(s) |-> s[Len(s) + 1 - i]]

\* the module bodies made of catalogue items, in catalogue order or reversed
CatalogueModules ==
  {[i \in 1..Len(ks) |-> Items(i)[ks[i]]] :
     ks \in IncSeqs(MaxItems) \cup {Reverse(s) : s \in IncSeqs(MaxItems)}}

(* Inputs: one variable declaration whose i-th declarator binds v<i> and   *)
(* uses the specifier s<i> and the key k<i>.                               *)
VarName(i) == <<"v1", "v2", "v3", "v4", "v5">>[i]
SrcName(i) == <<"s1", "s2", "s3", "s4", "s5">>[i]
KeyName(i) == <<"k1", "k2", "k3", "k4", "k5">>[i]

DeclShapes == {"Lit", "Req", "ReqDestr", "ReqMember", "Nested", "ReqRest", "NoInit"}

\* the i-th declarator of the declaration on line 1, of the given shape
Declarator(shape, i) ==
  LET v == patIdent(G(VarName(i), 1, 10 * i + 1))
      req == Require(SrcName(i), 1, 10 * i + 4)
      sp == <<1, 10 * i>>
  IN CASE shape = "Lit" -> mkDeclarator(v, mkNum(i), sp)
       [] shape = "Req" -> mkDeclarator(v, req, sp)
       [] shape = "ReqDestr" ->
            mkDeclarator(patObject(<<ppKeyValue(pnIdent(KeyName(i)), v)>>, sp), req, sp)
       [] shape = "ReqMember" ->
            mkDeclarator(v, mkMember(req, P("foo", 1, 10 * i + 7), FALSE, <<1, 10 * i + 6>>), sp)
       [] shape = "Nested" ->
            mkDeclarator(v, mkCall(G("g", 1, 10 * i + 2), <<req>>, <<1, 10 * i + 3>>), sp)
       [] shape = "ReqRest" -> mkDeclarator(patObject(<<ppRest(v)>>, sp), req, sp)
       [] OTHER -> mkDeclarator(v, None, sp)

RECURSIVE ShapeSeqs(_)
ShapeSeqs(n) ==
  IF n = 0 THEN {<<>>}
  ELSE {<<>>} \cup {Append(s, x) : <<s, x>> \in ShapeSeqs(n - 1) \X DeclShapes}

VarModules ==
  {<<mkVarDecl("var", [i \in 1..Len(shapes) |-> Declarator(shapes[i], i)], <<1, 1>>)>> :
     shapes \in ShapeSeqs(MaxDecls) \ {<<>>}}

Modules == CatalogueModules \cup VarModules

-----------------------------------------------------------------------------
(* collect_decls: the identifiers the module declares, at any depth (the   *)
(* `decls` argument of `hoist`, computed upstream).                        *)

RECURSIVE BindingIds(_), BindingIdsOfSeq(_), BindingIdsOfProps(_)
BindingIds(pat) ==
  CASE pat.t = "PatIdent" -> {id(pat.id)}
    [] pat.t = "PatArray" -> BindingIdsOfSeq(pat.elems)
    [] pat.t = "PatObject" -> BindingIdsOfProps(pat.props)
    [] pat.t = "PatAssign" -> BindingIds(pat.left)
    [] pat.t = "PatRest" -> BindingIds(pat.arg)
    [] OTHER -> {}

BindingIdsOfSeq(pats) ==
  IF pats = <<>> THEN {} ELSE BindingIds(Head(pats)) \cup BindingIdsOfSeq(Tail(pats))

BindingIdsOfProps(props) ==
  IF props = <<>> THEN {}
  ELSE LET prop == Head(props)
           here == CASE prop.t = "KeyValuePat" -> BindingIds(prop.value)
                     [] prop.t = "AssignPatProp" -> {id(prop.key)}
                     [] OTHER -> BindingIds(prop.arg)
       IN here \cup BindingIdsOfProps(Tail(props))

RECURSIVE DeclsOfExpr(_), DeclsOfExprs(_), DeclsOfProps(_), DeclsOfFunction(_),
          DeclsOfStmt(_), DeclsOfStmts(_), DeclsOfDeclarators(_)
DeclsOfExpr(e) ==
  CASE e.t = "Member" -> DeclsOfExpr(e.obj) \cup DeclsOfExpr(e.prop)
    [] e.t = "Call" -> DeclsOfExpr(e.callee) \cup DeclsOfExprs(e.args)
    [] e.t = "Assign" -> DeclsOfExpr(e.right)
    [] e.t = "Unary" -> DeclsOfExpr(e.arg)
    [] e.t = "Await" -> DeclsOfExpr(e.arg)
    [] e.t = "Seq" -> DeclsOfExprs(e.exprs)
    [] e.t = "Fn" -> DeclsOfFunction(e.function)
    [] e.t = "Class" ->
         (IF e.class.super_class = None THEN {} ELSE DeclsOfExpr(e.class.super_class))
         \cup UNION {DeclsOfFunction(e.class.body[i].function) : i \in 1..Len(e.class.body)}
    [] e.t = "Arrow" ->
         BindingIdsOfSeq(e.params) \cup
         (IF e.body.t = "Block" THEN DeclsOfStmts(e.body.stmts) ELSE DeclsOfExpr(e.body))
    [] e.t = "Object" -> DeclsOfProps(e.props)
    [] OTHER -> {}

DeclsOfExprs(es) ==
  IF es = <<>> THEN {} ELSE DeclsOfExpr(Head(es)) \cup DeclsOfExprs(Tail(es))

DeclsOfProps(props) ==
  IF props = <<>> THEN {}
  ELSE LET prop == Head(props)
           here == CASE prop.t = "KeyValue" -> DeclsOfExpr(prop.value)
                     [] prop.t = "Getter" -> DeclsOfStmts(prop.body)
                     [] prop.t = "Setter" -> BindingIds(prop.param) \cup DeclsOfStmts(prop.body)
                     [] prop.t = "Method" -> DeclsOfFunction(prop.function)
                     [] OTHER -> {}
       IN here \cup DeclsOfProps(Tail(props))

DeclsOfFunction(f) == BindingIdsOfSeq(f.params) \cup DeclsOfStmts(f.body)

DeclsOfDeclarators(ds) ==
  IF ds = <<>> THEN {}
  ELSE BindingIds(Head(ds).name)
       \cup (IF Head(ds).init = None THEN {} ELSE DeclsOfExpr(Head(ds).init))
       \cup DeclsOfDeclarators(Tail(ds))

DeclsOfStmt(s) ==
  CASE s.t = "ExprStmt" -> DeclsOfExpr(s.expr)
    [] s.t = "VarDecl" -> DeclsOfDeclarators(s.decls)
    [] s.t = "Return" -> IF s.arg = None THEN {} ELSE DeclsOfExpr(s.arg)
    [] s.t = "FnDecl" -> {id(s.ident)} \cup DeclsOfFunction(s.function)
    [] OTHER -> {}

DeclsOfStmts(ss) ==
  IF ss = <<>> THEN {} ELSE DeclsOfStmt(Head(ss)) \cup DeclsOfStmts(Tail(ss))

DeclsOfItem(item) ==
  CASE item.t = "Import" -> {id(item.specifiers[i].local) : i \in 1..Len(item.specifiers)}
    [] item.t = "ExportDecl" -> DeclsOfStmt(item.decl)
    [] item.t = "ExportDefaultDecl" ->
         (IF item.ident = None THEN {} ELSE {id(item.ident)}) \cup DeclsOfFunction(item.function)
    [] item.t = "ExportDefaultExpr" -> DeclsOfExpr(item.expr)
    [] item.t \in {"ExportNamed", "ExportAll"} -> {}
    [] OTHER -> DeclsOfStmt(item)

collect_decls(body) == UNION {DeclsOfItem(body[i]) : i \in 1..Len(body)}

-----------------------------------------------------------------------------
(* The expressions of a module, at any depth; with `deep` false, those     *)
(* outside every function, method, getter and setter.                      *)

RECURSIVE ExprsOf(_, _), ExprsOfSeq(_, _), ExprsOfPat(_, _), ExprsOfPats(_, _),
          ExprsOfPatProps(_, _), ExprsOfProps(_, _), ExprsOfStmt(_, _), ExprsOfStmts(_, _),
          ExprsOfDeclarators(_, _)
ExprsOfFunction(f, deep) ==
  IF deep THEN ExprsOfPats(f.params, deep) \cup ExprsOfStmts(f.body, deep) ELSE {}

ExprsOf(e, deep) ==
  {e} \cup
  CASE e.t = "Member" ->
         ExprsOf(e.obj, deep) \cup (IF e.computed THEN ExprsOf(e.prop, deep) ELSE {})
    [] e.t = "Call" -> ExprsOf(e.callee, deep) \cup ExprsOfSeq(e.args, deep)
    [] e.t = "Assign" -> ExprsOfPat(e.left, deep) \cup ExprsOf(e.right, deep)
    [] e.t \in {"Unary", "Await"} -> ExprsOf(e.arg, deep)
    [] e.t = "Seq" -> ExprsOfSeq(e.exprs, deep)
    [] e.t = "Fn" -> ExprsOfFunction(e.function, deep)
    [] e.t = "Class" ->
         (IF e.class.super_class = None THEN {} ELSE ExprsOf(e.class.super_class, deep))
         \cup (IF deep
               THEN UNION {(IF e.class.body[i].key.t = "PnComputed"
                            THEN ExprsOf(e.class.body[i].key.expr, deep) ELSE {})
                           \cup ExprsOfFunction(e.class.body[i].function, deep) :
                             i \in 1..Len(e.class.body)}
               ELSE {})
    [] e.t = "Arrow" ->
         ExprsOfPats(e.params, deep) \cup
         (IF e.body.t = "Block" THEN ExprsOfStmts(e.body.stmts, deep)
          ELSE ExprsOf(e.body, deep))
    [] e.t = "Object" -> ExprsOfProps(e.props, deep)
    [] OTHER -> {}

ExprsOfSeq(es, deep) ==
  IF es = <<>> THEN {} ELSE ExprsOf(Head(es), deep) \cup ExprsOfSeq(Tail(es), deep)

ExprsOfPat(p, deep) ==
  CASE p.t = "PatExpr" -> ExprsOf(p.expr, deep)
    [] p.t = "PatAssign" -> ExprsOfPat(p.left, deep) \cup ExprsOf(p.right, deep)
    [] p.t = "PatArray" -> ExprsOfPats(p.elems, deep)
    [] p.t = "PatObject" -> ExprsOfPatProps(p.props, deep)
    [] p.t = "PatRest" -> ExprsOfPat(p.arg, deep)
    [] OTHER -> {}

ExprsOfPats(ps, deep) ==
  IF ps = <<>> THEN {} ELSE ExprsOfPat(Head(ps), deep) \cup ExprsOfPats(Tail(ps), deep)

ExprsOfPatProps(props, deep) ==
  IF props = <<>> THEN {}
  ELSE LET prop == Head(props)
           here == CASE prop.t = "KeyValuePat" ->
                          (IF prop.key.t = "PnComputed" THEN ExprsOf(prop.key.expr, deep)
                           ELSE {})
                          \cup ExprsOfPat(prop.value, deep)
                     [] prop.t = "AssignPatProp" ->
                          IF prop.value = None THEN {} ELSE ExprsOf(prop.value, deep)
                     [] OTHER -> ExprsOfPat(prop.arg, deep)
       IN here \cup ExprsOfPatProps(Tail(props), deep)

ExprsOfProps(props, deep) ==
  IF props = <<>> THEN {}
  ELSE LET prop == Head(props)
           key == IF prop.t # "Shorthand" /\ prop.key.t = "PnComputed"
                  THEN ExprsOf(prop.key.expr, deep) ELSE {}
           here == CASE prop.t = "Shorthand" -> {prop.id}
                     [] prop.t = "KeyValue" -> ExprsOf(prop.value, deep)
                     [] prop.t = "Getter" ->
                          IF deep THEN ExprsOfStmts(prop.body, deep) ELSE {}
                     [] prop.t = "Setter" ->
                          IF deep
                          THEN ExprsOfPat(prop.param, deep) \cup ExprsOfStmts(prop.body, deep)
                          ELSE {}
                     [] OTHER -> ExprsOfFunction(prop.function, deep)
       IN key \cup here \cup ExprsOfProps(Tail(props), deep)

ExprsOfDeclarators(ds, deep) ==
  IF ds = <<>> THEN {}
  ELSE ExprsOfPat(Head(ds).name, deep)
       \cup (IF Head(ds).init = None THEN {} ELSE ExprsOf(Head(ds).init, deep))
       \cup ExprsOfDeclarators(Tail(ds), deep)

ExprsOfStmt(s, deep) ==
  CASE s.t = "ExprStmt" -> ExprsOf(s.expr, deep)
    [] s.t = "VarDecl" -> ExprsOfDeclarators(s.decls, deep)
    [] s.t = "Return" -> IF s.arg = None THEN {} ELSE ExprsOf(s.arg, deep)
    [] s.t = "FnDecl" -> ExprsOfFunction(s.function, deep)
    [] OTHER -> {}

ExprsOfStmts(ss, deep) ==
  IF ss = <<>> THEN {} ELSE ExprsOfStmt(Head(ss), deep) \cup ExprsOfStmts(Tail(ss), deep)

ExprsOfItem(item, deep) ==
  CASE item.t = "ExportDecl" -> ExprsOfStmt(item.decl, deep)
    [] item.t = "ExportDefaultExpr" -> ExprsOf(item.expr, deep)
    [] item.t = "ExportDefaultDecl" -> ExprsOfFunction(item.function, deep)
    [] item.t \in {"Import", "ExportNamed", "ExportAll"} -> {}
    [] OTHER -> ExprsOfStmt(item, deep)

ExprsOfModule(body) == UNION {ExprsOfItem(body[i], TRUE) : i \in 1..Len(body)}

\* the fold of these items ran into a panic
Panicked(items) ==
  \E i \in 1..Len(items) : \E e \in ExprsOfItem(items[i], TRUE) : e.t = "Panic"

-----------------------------------------------------------------------------
(* The state machine: `hoist` on one module.                               *)

Init ==
  /\ module \in Modules
  /\ module_span \in ModuleSpans
  /\ trace_bailouts \in BOOLEAN
  /\ collect = Collect_new(collect_decls(module), trace_bailouts)
  /\ hoist = None
  /\ pc = "collect"
  /\ idx = 1
  /\ result = None

\* Collect::visit_module, one child: visit_module_item on the next item
CollectItem ==
  /\ pc = "collect"
  /\ idx <= Len(module)
  /\ collect' = visit_with("ModuleItem", module[idx], collect)
  /\ idx' = idx + 1
  /\ UNCHANGED <<module, module_span, trace_bailouts, hoist, pc, result>>

\* Collect::visit_module, after the children; then Hoist::new
CollectDone ==
  /\ pc = "collect"
  /\ idx > Len(module)
  /\ collect' = visit_module_end(collect)
  /\ hoist' = Hoist_new(collect')
  /\ pc' = "fold"
  /\ idx' = 1
  /\ UNCHANGED <<module, module_span, trace_bailouts, result>>

\* Hoist::fold_module, one iteration of the loop over the items; a panic
\* inside it ends `hoist` without a return value
FoldItem ==
  /\ pc = "fold"
  /\ idx <= Len(module)
  /\ \E h \in fold_with("ModuleItem", module[idx], hoist) :
       IF Panicked(h.module_items)
       THEN pc' = "panic" /\ UNCHANGED <<hoist, idx>>
       ELSE hoist' = h /\ idx' = idx + 1 /\ pc' = pc
  /\ UNCHANGED <<module, module_span, trace_bailouts, collect, result>>

\* Hoist::fold_module, after the loop
FoldDone ==
  /\ pc = "fold"
  /\ idx > Len(module)
  /\ \E order \in Orders(hoist.export_decls) : hoist' = fold_module_end(hoist, order, module_span)
  /\ pc' = "ret"
  /\ UNCHANGED <<module, module_span, trace_bailouts, collect, idx, result>>

\* hoist, the return
Return ==
  /\ pc = "ret"
  /\ result' = hoist_return(hoist)
  /\ pc' = "done"
  /\ UNCHANGED <<module, module_span, trace_bailouts, collect, hoist, idx>>

Next == CollectItem \/ CollectDone \/ FoldItem \/ FoldDone \/ Return

Spec == Init /\ [][Next]_vars

-----------------------------------------------------------------------------
(* Properties.                                                             *)

Done == pc = "done"
IsOk == pc = "done" /\ result.t = "Ok"
\* the Analyzer has finished: `collect` is the fact base the Rewriter reads
Analysed == pc \in {"fold", "ret", "done"}

RECURSIVE Flatten(_)
Flatten(ss) == IF ss = <<>> THEN <<>> ELSE Head(ss) \o Flatten(Tail(ss))

\* the module is one `var` declaration built from DeclShapes
IsVarModule == Len(module) = 1 /\ module[1].t = "VarDecl" /\ module[1].kind = "var"

\* For an item of the output of a generated declaration: the declarators it
\* stems from, as <<index of the declarator, kind>>, kind 0 for its hoisted
\* import, 1 for its indirection variable, 2 for the retained declarator
OriginsOf(item) ==
  CASE item.t = "Import" ->
         <<<<CHOOSE j \in 1..5 : item.src = module_id \o ":" \o SrcName(j), 0>>>>
    [] item.t = "VarDecl" /\ item.span = DUMMY_SP ->
         <<<<item.decls[1].init.span[2] \div 10, 1>>>>
    [] OTHER -> [i \in 1..Len(item.decls) |-> <<item.decls[i].span[2] \div 10, 2>>]

Origins(items) == Flatten([i \in 1..Len(items) |-> OriginsOf(items[i])])

OriginLeq(a, b) == a[1] < b[1] \/ (a[1] = b[1] /\ a[2] <= b[2])

\* C1: a top-level variable declaration d1..dn is rewritten in source order:
\* everything produced from di (hoisted import, then indirection variable,
\* then the retained declarator) precedes everything produced from dj, i < j;
\* the hoisted imports are statements of their own, so the declaration is
\* split at them; every declarator is retained at most once, its import is
\* emitted at most once, and none is lost.
C1_DeclaratorOrder ==
  (IsOk /\ IsVarModule) =>
    LET out == result.module
        o == Origins(out)
        n == Len(module[1].decls)
        Retained(j) == Cardinality({i \in 1..Len(o) : o[i] = <<j, 2>>})
        Imported(j) == Cardinality({i \in 1..Len(o) : o[i] = <<j, 0>>})
    IN /\ \A i \in 1..Len(o) - 1 : OriginLeq(o[i], o[i + 1])
       /\ \A j \in 1..n :
            /\ Retained(j) <= 1
            /\ Imported(j) <= 1
            /\ Retained(j) + Imported(j) >= 1
       /\ \A i \in 1..Len(o) : o[i][1] \in 1..n

\* a declaration of three declarators was split around a hoisted require
C1_Witness ==
  /\ IsOk
  /\ IsVarModule
  /\ Len(module[1].decls) = 3
  /\ Len(result.module) >= 5
  /\ result.module[1].t = "VarDecl"
  /\ result.module[2].t = "Import"

\* the specifiers of the ESM imports and re-exports of the body, in source order
RECURSIVE EsmSources(_)
EsmSources(body) ==
  IF body = <<>> THEN <<>>
  ELSE LET item == Head(body)
           here == IF \/ item.t \in {"Import", "ExportAll"}
                      \/ (item.t = "ExportNamed" /\ item.src # "")
                   THEN <<item.src>> ELSE <<>>
       IN here \o EsmSources(Tail(body))

\* `var <name>;` as fold_module emits it for a deferred export
IsDeferredVar(item) ==
  /\ item.t = "VarDecl"
  /\ item.span = module_span
  /\ Len(item.decls) = 1
  /\ item.decls[1].span = module_span
  /\ item.decls[1].init = None

\* an item of the output that carries the span of a statement of the source
HasLine(item) ==
  \/ item.t \in {"ExprStmt", "Return"}
  \/ (item.t = "VarDecl" /\ item.span \notin {DUMMY_SP, module_span})

\* the layout of the returned body
C2_Front ==
  IsOk =>
    LET m == result.module
        srcs == EsmSources(module)
        nf == Len(srcs)
        ne == Cardinality({i \in 1..Len(m) : IsDeferredVar(m[i])})
        stmts == {i \in 1..Len(m) : HasLine(m[i])}
    IN /\ Len(m) >= nf + ne
       /\ \A i \in 1..nf : m[i] = mkImport(module_id \o ":" \o srcs[i], <<>>)
       /\ \A i \in (nf + 1)..(nf + ne) : IsDeferredVar(m[i])
       /\ \A i, j \in stmts : i < j => m[i].span[1] <= m[j].span[1]

\* one iteration of fold_module's loop leaves what earlier statements
\* produced in place; an import made from a require is appended with the
\* statement, before it, and not to the hoisted imports
C2_InPlace ==
  LET item == module[idx]
      old == hoist.module_items
      new == hoist'.module_items
      added == SubSeq(new, Len(old) + 1, Len(new))
      esm == \/ item.t \in {"Import", "ExportAll"}
             \/ (item.t = "ExportNamed" /\ item.src # "")
      bare == item.t = "ExprStmt" /\ match_require(item.expr, collect.decls).some
  IN /\ Len(new) >= Len(old)
     /\ SubSeq(new, 1, Len(old)) = old
     /\ IF esm
        THEN /\ hoist'.hoisted_imports =
                  Append(hoist.hoisted_imports, mkImport(module_id \o ":" \o item.src, <<>>))
             /\ added = <<>>
        ELSE hoist'.hoisted_imports = hoist.hoisted_imports
     /\ bare => added = <<mkImport(module_id \o ":" \o match_require(item.expr, collect.decls).v,
                                   <<>>)>>
     /\ (item.t = "ExprStmt" /\ ~bare) =>
          /\ added # <<>>
          /\ added[Len(added)].t = "ExprStmt"
          /\ added[Len(added)].span = item.span
          /\ \A i \in 1..(Len(added) - 1) : added[i].t = "Import"

\* the end of fold_module puts the hoisted imports, then the deferred
\* export variables, in front of the items, whose order it keeps
C2_Splice ==
  LET nf == Len(hoist.hoisted_imports)
      ne == Cardinality(hoist.export_decls)
      new == hoist'.module_items
  IN /\ SubSeq(new, 1, nf) = hoist.hoisted_imports
     /\ \A i \in (nf + 1)..(nf + ne) : IsDeferredVar(new[i])
     /\ {new[i].decls[1].name.id.sym : i \in (nf + 1)..(nf + ne)} = hoist.export_decls
     /\ SubSeq(new, nf + ne + 1, Len(new)) = hoist.module_items

\* C2: the rewritten body is: one side-effect import `<module-id>:<specifier>`
\* per ESM import and re-export declaration, in source order; then the
\* deferred export variable declarations; then the remaining items in their
\* original order.  An import generated from a require stays with the
\* statement it came from, after the items of earlier statements and before
\* the item that uses it.
C2_BodyLayout ==
  /\ [](C2_Front)
  /\ [][FoldItem => C2_InPlace]_vars
  /\ [][FoldDone => C2_Splice]_vars

\* an ESM import after a statement with a require: the ESM import leads,
\* the import of the require stays with its statement
C2_Witness ==
  /\ IsOk
  /\ module = <<LogRequire(1), ImportX(2)>>
  /\ result.module[1] = mkImport("abc:other", <<>>)
  /\ result.module[2] = mkImport("abc:b", <<>>)
  /\ result.module[3].t = "ExprStmt"


\* the bindings that are the target of an assignment somewhere in the body
AssignedIds(body) ==
  UNION {BindingIds(e.left) : e \in {x \in ExprsOfModule(body) : x.t = "Assign"}}

\* the local bindings of the ESM import specifiers of the body
ImportLocals(body) ==
  UNION {{body[i].specifiers[j].local : j \in 1..Len(body[i].specifiers)} :
           i \in {k \in 1..Len(body) : body[k].t = "Import"}}

\* the fatal diagnostics the Rewriter emitted for the import binding `local`
DiagnosticsFor(local) ==
  {i \in 1..Len(hoist.diagnostics) :
     LET hl == hoist.diagnostics[i].code_highlights
     IN /\ hoist.diagnostics[i].message = "Assignment to an import specifier is not allowed"
        /\ hl[Len(hl)] = [loc |-> local.span, message |-> "Originally imported here"]}

\* C3: an ESM import binding that is the target of an assignment anywhere in
\* the module gets exactly one fatal diagnostic, whose highlights are the
\* assignment sites and then the import site; when no import binding is
\* assigned the Rewriter emits no fatal diagnostic.
C3_ImportAssignment ==
  Done =>
    LET locals == ImportLocals(module)
        assigned == AssignedIds(module)
    IN /\ \A local \in locals :
            id(local) \in assigned =>
              /\ Cardinality(DiagnosticsFor(local)) = 1
              /\ \A i \in DiagnosticsFor(local) :
                   Len(hoist.diagnostics[i].code_highlights) >= 2
       /\ (\A local \in locals : id(local) \notin assigned) => hoist.diagnostics = <<>>

\* C4: hoist returns Err exactly when the Rewriter emitted a fatal
\* diagnostic, and Err carries the diagnostics only; otherwise it returns Ok
\* with no diagnostics when tracing is off and with exactly the Analyzer's
\* bailouts, sorted by location, when tracing is on; bailouts never give Err.
C4_ReturnShape ==
  Done =>
    /\ (result.t = "Err") <=> (hoist.diagnostics # <<>>)
    /\ result.t = "Err" =>
         /\ DOMAIN result = {"t", "diagnostics"}
         /\ result.diagnostics = hoist.diagnostics
    /\ result.t # "Err" =>
         /\ result.t = "Ok"
         /\ DOMAIN result = {"t", "module", "result", "diagnostics"}
         /\ IF trace_bailouts
            THEN LET b == collect.bailouts.v
                 IN /\ result.diagnostics = [i \in 1..Len(b) |-> to_diagnostic(b[i])]
                    /\ \A i, j \in 1..Len(b) : i < j => ~LocLess(b[j].loc, b[i].loc)
            ELSE result.diagnostics = <<>>

\* two bailouts were traced and returned with Ok, in the order of their lines
C4_Witness ==
  /\ IsOk
  /\ trace_bailouts
  /\ Len(result.diagnostics) >= 2
  /\ result.diagnostics[1].code_highlights[1].loc[1]
       < result.diagnostics[2].code_highlights[1].loc[1]

Flags(c) == <<c.should_wrap, c.has_cjs_exports, c.is_esm, ~c.static_cjs_exports>>

\* C5: the flags should_wrap, has_cjs_exports, is_esm start false and
\* static_cjs_exports starts true; no step of the traversal moves one of them
\* back; the result summary reports the Analyzer's final values.
C5_FlagsMonotone ==
  /\ [](pc = "collect" /\ idx = 1 => Flags(collect) = <<FALSE, FALSE, FALSE, FALSE>>)
  /\ [][\A i \in 1..4 : Flags(collect)[i] => Flags(collect')[i]]_vars
  /\ [](IsOk => Flags(result.result) = Flags(collect))

\* a module that moved every flag, and whose summary reports them
C5_Witness ==
  /\ IsOk
  /\ Flags(result.result) = <<TRUE, TRUE, TRUE, TRUE>>


\* the occurrences of the free identifier `sym` as an expression of the body
FreeIdents(body, sym) ==
  {e \in ExprsOfModule(body) :
     e.t = "Ident" /\ e.sym = sym /\ id(e) \notin collect_decls(body)}

\* the expressions that are the object of a member access, the operand of typeof
MemberObjects(body) == {e.obj : e \in {x \in ExprsOfModule(body) : x.t = "Member"}}
TypeofOperands(body) ==
  {e.arg : e \in {x \in ExprsOfModule(body) : x.t = "Unary" /\ x.op = "typeof"}}

\* the body has one of the constructs that require the module to be wrapped
WrapTrigger(body) ==
  LET es == ExprsOfModule(body)
      decls == collect_decls(body)
  IN \/ \E i \in 1..Len(body) : body[i].t = "Return"
     \/ \E e \in es :
          e.t = "Call" /\ e.callee.t = "Ident" /\ e.callee.sym = "eval"
          /\ id(e.callee) \notin decls
     \/ FreeIdents(body, "module") \ (MemberObjects(body) \cup TypeofOperands(body)) # {}
     \/ \E e \in es :
          /\ e.t = "Member"
          /\ e.obj \in FreeIdents(body, "module")
          /\ ~match_member_expr(e, <<"module", "exports">>, decls)
          /\ ~match_member_expr(e, <<"module", "hot">>, decls)
          /\ ~match_member_expr(e, <<"module", "require">>, decls)
     \/ \E e \in es :
          /\ e.t = "Assign"
          /\ \E b \in BindingIds(e.left) : b[1] \in {"exports", "module"} /\ b \notin decls

\* the body is made of function declarations and object literals only
OnlyFunctionBodies(body) ==
  \A i \in 1..Len(body) :
    \/ body[i].t = "FnDecl"
    \/ (body[i].t = "ExprStmt" /\ body[i].expr.t = "Object")

\* C6: after analysis should_wrap is true whenever the module has, at any
\* depth of expressions, a return outside every function, a call of the free
\* eval, the free `module` as a bare value or as the object of a member access
\* other than .exports, .hot, .require, or an assignment that binds the free
\* `exports` or `module`; a return inside a function, method, getter or
\* setter does not set it.
C6_WrapTriggers ==
  Analysed =>
    /\ WrapTrigger(module) => collect.should_wrap
    /\ OnlyFunctionBodies(module) => ~collect.should_wrap

\* a pattern add_pat_imports cannot turn into named imports
NonStaticPat(p) ==
  \/ p.t \notin {"PatIdent", "PatObject"}
  \/ /\ p.t = "PatObject"
     /\ \E i \in 1..Len(p.props) :
          LET prop == p.props[i]
          IN \/ prop.t = "RestPatProp"
             \/ /\ prop.t = "KeyValuePat"
                /\ (prop.key.t = "PnComputed" \/ prop.value.t # "PatIdent")

\* the item is `import(..).then(f)` where f has no first parameter or one
\* that cannot be desugared
DynThenDestructure(item) ==
  /\ item.t = "ExprStmt"
  /\ item.expr.t = "Call"
  /\ item.expr.callee.t = "Member"
  /\ match_import(item.expr.callee.obj).some
  /\ ~item.expr.callee.computed
  /\ item.expr.callee.prop.sym = "then"
  /\ Len(item.expr.args) > 0
  /\ LET f == item.expr.args[1]
         params == CASE f.t = "Arrow" -> f.params
                     [] f.t = "Fn" -> f.function.params
                     [] OTHER -> <<>>
     IN params = <<>> \/ NonStaticPat(params[1])

\* the item is a declaration with a declarator `<pattern> = await import(..)`
\* whose pattern cannot be desugared
DynAwaitDestructure(item) ==
  /\ item.t = "VarDecl"
  /\ \E i \in 1..Len(item.decls) :
       LET d == item.decls[i]
       IN /\ d.init # None
          /\ d.init.t = "Await"
          /\ match_import(d.init.arg).some
          /\ NonStaticPat(d.name)

DynDestructure(item) == DynThenDestructure(item) \/ DynAwaitDestructure(item)

\* the specifier of the dynamic import of such an item
DynSource(item) ==
  IF item.t = "ExprStmt" THEN match_import(item.expr.callee.obj).v
  ELSE LET i == CHOOSE k \in 1..Len(item.decls) :
                  item.decls[k].init # None /\ item.decls[k].init.t = "Await"
       IN match_import(item.decls[i].init.arg).v

IsExportsAlias(e, body) ==
  \/ e \in FreeIdents(body, "exports")
  \/ (e.t = "Member" /\ match_member_expr(e, <<"module", "exports">>, collect_decls(body)))
  \/ (e.t = "This" /\ \E i \in 1..Len(body) : e \in ExprsOfItem(body[i], FALSE))

\* the member accesses through an alias of the exports object
ExportsAccesses(body) ==
  {e \in ExprsOfModule(body) : e.t = "Member" /\ IsExportsAlias(e.obj, body)}

\* the aliases used as a value of their own
BareAliases(body) ==
  {e \in ExprsOfModule(body) : IsExportsAlias(e, body)} \ MemberObjects(body)

StaticKey(e) == (e.prop.t = "Ident" /\ ~e.computed) \/ e.prop.t = "Str"

\* every use of the free `module` and `exports` is a static access of the
\* exports object, and neither is assigned
OnlyStaticAccesses(body) ==
  /\ BareAliases(body) = {}
  /\ \A e \in ExportsAccesses(body) : StaticKey(e)
  /\ FreeIdents(body, "exports") \subseteq {e.obj : e \in ExportsAccesses(body)}
  /\ FreeIdents(body, "module") \subseteq
       {e.obj.obj : e \in {x \in ExportsAccesses(body) : x.obj.t = "Member"}}
  /\ \A b \in AssignedIds(body) : b[1] \notin {"exports", "module"}

\* C8: every access through the free module.exports, the free exports or
\* the top-level this, also as the object of a longer member chain, sets
\* has_cjs_exports; a key that is not static, or an alias used as a value,
\* clears static_cjs_exports; with static keys only it stays true.
C8_CjsAccessFlags ==
  Analysed =>
    /\ (ExportsAccesses(module) # {} \/ BareAliases(module) # {}) => collect.has_cjs_exports
    /\ (BareAliases(module) # {} \/ \E e \in ExportsAccesses(module) : ~StaticKey(e)) =>
         ~collect.static_cjs_exports
    /\ OnlyStaticAccesses(module) => collect.static_cjs_exports


\* the accesses through the free `exports` and the free module.exports
CjsAccesses(body) == {e \in ExportsAccesses(body) : e.obj.t # "This"}

AccessKey(e) == IF e.prop.t = "Ident" THEN e.prop.sym ELSE e.prop.value

\* the expressions a pattern assigns to
RECURSIVE PatTargets(_), PatTargetsOfSeq(_), PatTargetsOfProps(_)
PatTargets(p) ==
  CASE p.t = "PatExpr" -> {p.expr}
    [] p.t = "PatAssign" -> PatTargets(p.left)
    [] p.t = "PatArray" -> PatTargetsOfSeq(p.elems)
    [] p.t = "PatObject" -> PatTargetsOfProps(p.props)
    [] p.t = "PatRest" -> PatTargets(p.arg)
    [] OTHER -> {}

PatTargetsOfSeq(ps) ==
  IF ps = <<>> THEN {} ELSE PatTargets(Head(ps)) \cup PatTargetsOfSeq(Tail(ps))

PatTargetsOfProps(props) ==
  IF props = <<>> THEN {}
  ELSE LET prop == Head(props)
           here == CASE prop.t = "KeyValuePat" -> PatTargets(prop.value)
                     [] prop.t = "AssignPatProp" -> {}
                     [] OTHER -> PatTargets(prop.arg)
       IN here \cup PatTargetsOfProps(Tail(props))

\* the expressions that are the target of an assignment of the body
WriteTargets(body) ==
  UNION {PatTargets(e.left) : e \in {x \in ExprsOfModule(body) : x.t = "Assign"}}

\* the identifiers of the body: the expressions and the assigned bindings
IdentsOf(body) ==
  {e \in ExprsOfModule(body) : e.t = "Ident"}
  \cup {e.left.id : e \in {x \in ExprsOfModule(body) : x.t = "Assign" /\ x.left.t = "PatIdent"}}

ExportName(key) == "$" \o module_id \o "$export$" \o hash(key)

\* the positions of the deferred declarations `var <name>;` of the body
DeferredVars(body, name) ==
  {i \in 1..Len(body) : IsDeferredVar(body[i]) /\ body[i].decls[1].name.id.sym = name}

\* C9: in a module that is not wrapped and whose CommonJS exports are
\* static, every read and write of exports.K and module.exports.K becomes the
\* identifier $<id>$export$<hash(K)>, a read adds K to the self-references,
\* and every assigned key K has exactly one declaration of that identifier,
\* before every item that is not an import.
C9_StaticCjsExports ==
  (IsOk /\ ~result.result.should_wrap /\ result.result.static_cjs_exports) =>
    LET out == result.module
        accesses == {e \in CjsAccesses(module) : StaticKey(e)}
        written == accesses \cap WriteTargets(module)
    IN /\ CjsAccesses(out) = {}
       /\ \A e \in accesses :
            \E i \in IdentsOf(out) : i.sym = ExportName(AccessKey(e)) /\ i.span = e.span
       /\ \A e \in accesses \ written : AccessKey(e) \in result.result.self_references
       /\ \A e \in written :
            LET at == DeferredVars(out, ExportName(AccessKey(e)))
            IN /\ Cardinality(at) = 1
               /\ \A i \in at : \A j \in 1..(i - 1) :
                    out[j].t = "Import" \/ IsDeferredVar(out[j])

\* C10: in a module that is not wrapped and whose CommonJS exports are not
\* static, every exports, module.exports, exports.KEY, exports[expr],
\* module.exports.KEY, module.exports[expr] goes through $<id>$exports, as
\* $<id>$exports.KEY and $<id>$exports[expr]; their keys get no identifier
\* $<id>$export$<hash> and no deferred declaration.
C10_NonStaticCjsExports ==
  (IsOk /\ ~result.result.should_wrap /\ ~result.result.static_cjs_exports) =>
    LET out == result.module
        accesses == CjsAccesses(module)
        names == {ExportName(AccessKey(e)) : e \in {x \in accesses : StaticKey(x)}}
        shared == "$" \o module_id \o "$exports"
    IN /\ FreeIdents(out, "exports") = {}
       /\ \A m \in ExprsOfModule(out) :
            m.t = "Member" => ~match_member_expr(m, <<"module", "exports">>, collect_decls(module))
       /\ \A e \in accesses :
            \E m \in ExprsOfModule(out) :
              /\ m.t = "Member"
              /\ m.span = e.span
              /\ m.obj.t = "Ident"
              /\ m.obj.sym = shared
              /\ m.computed = e.computed
              /\ StaticKey(e) => m.prop = e.prop
       /\ \A i \in IdentsOf(out) : i.sym \notin names
       /\ \A name \in names : DeferredVars(out, name) = {}

-----------------------------------------------------------------------------
(* Inputs: binding scenarios.  An optional declaration on the first line   *)
(* (an import, a require, a dynamic import, a local, a default export),    *)
(* then uses of what it binds.  The bindings are m, x, foo, bar, f; the    *)
(* one specifier bound is 'other'.                                         *)

\* most uses after the declaration
MaxUses == 2

\* import('other')
ImportOther(l, r) ==
  mkCall(mkIdent("import", EmptyCtxt, <<l, r>>), <<mkStr("other")>>, <<l, r + 1>>)
\* const <pat> = <init>
ConstDecl(pat, init, l) == mkVarDecl("const", <<mkDeclarator(pat, init, <<l, 2>>)>>, <<l, 1>>)

\* import * as m from 'other'
ImportStarM(l) == mkImport("other", <<mkImportSpec("Namespace", G("m", l, 2), "", <<l, 2>>)>>)
\* const m = require('other')
ConstRequireM(l) == ConstDecl(patIdent(G("m", l, 3)), Require("other", l, 5), l)
\* const {x} = require('other')
ConstXRequire(l) ==
  ConstDecl(patObject(<<ppAssign(G("x", l, 4), None)>>, <<l, 3>>), Require("other", l, 6), l)
\* const {foo} = await import('other')
DynAwaitFoo(l) ==
  ConstDecl(patObject(<<ppAssign(G("foo", l, 4), None)>>, <<l, 3>>),
            mkAwait(ImportOther(l, 6)), l)
\* const {foo: bar} = await import('other')
DynAwaitFooBar(l) ==
  ConstDecl(patObject(<<ppKeyValue(pnIdent("foo"), patIdent(G("bar", l, 5)))>>, <<l, 3>>),
            mkAwait(ImportOther(l, 6)), l)
\* var x = 1
VarX(l) == mkVarDecl("var", <<mkDeclarator(patIdent(G("x", l, 3)), mkNum(1), <<l, 2>>)>>, <<l, 1>>)
\* export default function f() {}
ExportDefaultFn(l) == mkExportDefaultDecl("Fn", G("f", l, 2), mkFunction(<<>>, <<>>))
\* export default function () {}
ExportDefaultAnon(l) == mkExportDefaultDecl("Fn", None, mkFunction(<<>>, <<>>))

BindingHeads(l) ==
  << ImportStarM(l), ConstRequireM(l), ImportX(l), ConstXRequire(l), DynAwaitFoo(l),
     DynAwaitFooBar(l), VarX(l), ExportDefaultFn(l), ExportDefaultAnon(l) >>

\* m.foo
MFoo(l) == Stmt(mkMember(G("m", l, 1), P("foo", l, 3), FALSE, <<l, 2>>), l)
\* m[k]
MComputed(l) == Stmt(mkMember(G("m", l, 1), G("k", l, 3), TRUE, <<l, 2>>), l)
\* console.log(m)
LogM(l) == Log(<<G("m", l, 10)>>, l)
\* ({m})
MShorthand(l) == Stmt(mkObject(<<mkShorthand(G("m", l, 2))>>), l)
\* m[k].foo
MChain(l) ==
  Stmt(mkMember(mkMember(G("m", l, 1), G("k", l, 3), TRUE, <<l, 2>>), P("foo", l, 6), FALSE,
                <<l, 4>>), l)
\* console.log(x)
LogX(l) == Log(<<G("x", l, 10)>>, l)
\* console.log(foo)
LogFoo(l) == Log(<<G("foo", l, 10)>>, l)
\* console.log(bar)
LogBar(l) == Log(<<G("bar", l, 10)>>, l)
\* console.log(f)
LogF(l) == Log(<<G("f", l, 10)>>, l)
\* import('other')
DynOther(l) == Stmt(ImportOther(l, 1), l)
\* const {...r} = require('other')
RestRequire(l) ==
  ConstDecl(patObject(<<ppRest(patIdent(G("r", l, 4)))>>, <<l, 3>>), Require("other", l, 6), l)
\* require('other');
RequireOther(l) == Stmt(Require("other", l, 1), l)
\* require('a'), require('b'), 1
SeqRequires(l) == Stmt(mkSeq(<<Require("a", l, 1), Require("b", l, 4), mkNum(1)>>), l)
\* 1, require('a')
SeqLast(l) == Stmt(mkSeq(<<mkNum(1), Require("a", l, 4)>>), l)
\* console.log(this)
LogThis(l) == Log(<<mkThis(<<l, 10>>)>>, l)
\* console.log(this.foo)
LogThisFoo(l) == Log(<<mkMember(mkThis(<<l, 10>>), P("foo", l, 12), FALSE, <<l, 11>>)>>, l)
\* function g() { return this; }
FnThis(l) ==
  mkFnDecl(G("g", l, 2), mkFunction(<<>>, <<mkReturn(mkThis(<<l, 4>>), <<l, 3>>)>>))
\* (() => this.foo)
ArrowThis(l) ==
  Stmt(mkArrow(<<>>, mkMember(mkThis(<<l, 3>>), P("foo", l, 5), FALSE, <<l, 4>>)), l)
\* ({get a() { return this; }, set a(v) { this.foo; }})
AccessorThis(l) ==
  Stmt(mkObject(<<mkGetter(pnIdent("a"), <<mkReturn(mkThis(<<l, 3>>), <<l, 2>>)>>),
                  mkSetter(pnIdent("a"), patIdent(L("v", l, 5)),
                           <<Stmt(mkMember(mkThis(<<l, 6>>), P("foo", l, 8), FALSE, <<l, 7>>),
                                  l)>>)>>), l)
\* export {x as a, x as b}
ExportXAB(l) ==
  mkExportNamed("", <<mkExportSpec("Named", G("x", l, 2), "a", <<l, 2>>),
                      mkExportSpec("Named", G("x", l, 4), "b", <<l, 4>>)>>)
\* export {m as a}
ExportMA(l) == mkExportNamed("", <<mkExportSpec("Named", G("m", l, 2), "a", <<l, 2>>)>>)

BindingUses(l) ==
  << MFoo(l), MComputed(l), LogM(l), MShorthand(l), MChain(l), LogX(l), AssignX(l),
     LogFoo(l), LogBar(l), LogF(l), DynOther(l), RestRequire(l), RequireOther(l),
     EvalCall(l), SeqRequires(l), SeqLast(l), LogThis(l), LogThisFoo(l), FnThis(l),
     ArrowThis(l), AccessorThis(l), ExportXAB(l), ExportMA(l) >>

NumUses == Len(BindingUses(1))

\* the strictly increasing sequences of at most n indices of BindingUses
RECURSIVE IncUses(_)
IncUses(n) ==
  IF n = 0 THEN {<<>>}
  ELSE LET shorter == IncUses(n - 1)
       IN shorter \cup
          {Append(s, k) : <<s, k>> \in
             {p \in shorter \X (1..NumUses) :
                Len(p[1]) = n - 1 /\ (p[1] = <<>> \/ p[1][Len(p[1])] < p[2])}}

\* a declaration of BindingHeads, or none, then uses in catalogue order
BindingModules ==
  {[i \in 1..Len(ks) |-> BindingUses(i)[ks[i]]] : ks \in IncUses(MaxUses)} \cup
  {<<BindingHeads(1)[d]>> \o [i \in 1..Len(ks) |-> BindingUses(i + 1)[ks[i]]] :
     <<d, ks>> \in (1..Len(BindingHeads(1))) \X IncUses(MaxUses)}

InitBindings ==
  /\ module \in BindingModules
  /\ module_span \in ModuleSpans
  /\ trace_bailouts \in BOOLEAN
  /\ collect = Collect_new(collect_decls(module), trace_bailouts)
  /\ hoist = None
  /\ pc = "collect"
  /\ idx = 1
  /\ result = None

SpecBindings == InitBindings /\ [][Next]_vars

-----------------------------------------------------------------------------
(* Properties of the binding scenarios.                                    *)

\* the Rewriter is about to process item idx
Folding == pc = "fold" /\ idx <= Len(module)
\* the first item binds m to the whole namespace of 'other'
BindsNamespaceM == module # <<>> /\ module[1] \in {ImportStarM(1), ConstRequireM(1)}
IdM == <<"m", GlobalCtxt>>
\* what the Analyzer recorded about m: no non-static access, no reassignment
MStaticOnly ==
  /\ IdM \notin DOMAIN collect.non_static_access
  /\ IdM \notin DOMAIN collect.non_const_bindings
\* the per-key name $<id>$import$<hash(x)>$<hash(y)> for x = 'other', y = 'foo'
OtherFooName == "$" \o module_id \o "$import$" \o hash("other") \o "$" \o hash("foo")
\* the namespace name $<id>$import$<hash(x)>
OtherName == "$" \o module_id \o "$import$" \o hash("other")

\* the step of the Rewriter over the declaration of m, and over `m.foo`
C11_Step ==
  /\ idx = 1 =>
       /\ hoist'.module_items \o hoist'.hoisted_imports = <<SideEffectImport("other")>>
       /\ hoist'.imported_symbols = <<>>
  /\ module[idx] = MFoo(idx) =>
       /\ hoist'.module_items =
            Append(hoist.module_items,
                   Stmt(mkIdent(OtherFooName, EmptyCtxt, <<idx, 2>>), idx))
       /\ hoist'.imported_symbols =
            Append(hoist.imported_symbols,
                   ImportedSymbol("other", OtherFooName, "foo", <<idx, 2>>))

\* C11 as stated: m bound by `import * as m from 'x'` or by a top-level
\* `const m = require('x')`, with no non-static access and no reassignment:
\* the declaration is replaced by exactly one side-effect import of x and
\* every `m.y` becomes the per-key identifier, adding one record
C11_AsStated == [][Folding /\ BindsNamespaceM /\ MStaticOnly => C11_Step]_vars

\* C11: for either binding form of m, provided m has no non-static access and
\* no reassignment and x is required or imported non-statically nowhere in
\* the module, the declaration of m is replaced by exactly one side-effect
\* import of x and nothing else, and each `m.y` is replaced by the identifier
\* $<id>$import$<hash(x)>$<hash(y)>, adding exactly one imported-symbol record
\* {source x, imported y} with that local name
C11_StaticNamespaceAccess ==
  [][Folding /\ BindsNamespaceM /\ MStaticOnly /\ "other" \notin collect.non_static_requires
       => C11_Step]_vars

C11_Witness ==
  /\ IsOk
  /\ BindsNamespaceM
  /\ module[1] = ConstRequireM(1)
  /\ MStaticOnly
  /\ \E i \in 1..Len(result.module) :
       result.module[i] = Stmt(mkIdent(OtherFooName, EmptyCtxt, <<2, 2>>), 2)
  /\ \E i \in 1..Len(result.result.imported_symbols) :
       result.result.imported_symbols[i].local = OtherFooName

\* m is used non-statically somewhere: m[k], or m as a bare value
MUsedNonStatically ==
  \E i \in 1..Len(module) : module[i] \in {MComputed(i), LogM(i), MShorthand(i), MChain(i)}

\* the names under which the output refers to m or to a member of m
NamesOfM == {"m", "$" \o module_id \o "$var$m", "$" \o module_id \o "$require$m"}

\* C12: m bound to the whole namespace of x with at least one non-static
\* access (m[k], or m as a bare value): every occurrence of m in the output
\* is the namespace identifier $<id>$import$<hash(x)>, and no per-key
\* identifier $<id>$import$<hash(x)>$<hash(key)> is produced: neither in the
\* body nor as the local name of an imported-symbol record
C12_NamespaceRetained ==
  (IsOk /\ BindsNamespaceM /\ MUsedNonStatically) =>
    /\ \A e \in IdentsOf(result.module) : e.sym \notin NamesOfM \cup {OtherFooName}
    /\ \A i \in 1..Len(result.result.imported_symbols) :
         LET r == result.result.imported_symbols[i]
         IN r.source = "other" => r.imported = "*" /\ r.local = OtherName

\* the specifiers and the keys the names are synthesized from
NameSpecifiers == {"other", "a", "b", "dyn"}
NameKeys == {"foo", "bar", "x", "a", "default"}
NameKinds == {"import", "importAsync", "export", "exports", "var", "require"}

\* <<kind, specifier, key>>: what a name is synthesized from; "*" is the whole
\* namespace, and the kinds export, exports, var and require take no specifier
NameInputs ==
  ({"import", "importAsync"} \X NameSpecifiers \X (NameKeys \cup {"*"}))
  \cup ({"export", "var", "require"} \X {""} \X NameKeys)
  \cup {<<"exports", "", "*">>}

\* the name the Rewriter in state h synthesizes for the input
NameIn(h, in) ==
  LET kind == in[1]
      s == in[2]
      k == in[3]
  IN CASE kind = "import" -> get_import_ident(h, DUMMY_SP, EmptyCtxt, s, k, DUMMY_SP).n.sym
       [] kind = "importAsync" ->
            IF k = "*" THEN ImportAsyncName(s) ELSE ImportAsyncKeyName(s, k)
       [] kind \in {"export", "exports"} -> get_export_ident(h, DUMMY_SP, k).n.sym
       [] kind = "require" -> get_require_ident(k).sym
       [] OTHER ->
            fold_ident(G(k, 0, 0),
                       [h EXCEPT !.collect = Collect_new({<<k, GlobalCtxt>>}, FALSE)]).n.sym

\* a Rewriter that has produced nothing yet
FreshHoist == Hoist_new(Collect_new({}, FALSE))

\* the name a fresh Rewriter gives to each input
FreshNames == [in \in NameInputs |-> NameIn(FreshHoist, in)]

\* different inputs give different names, across kinds too
NamesInjective ==
  Cardinality({FreshNames[in] : in \in NameInputs}) = Cardinality(NameInputs)

\* the inputs every state of the Rewriter is probed with
ProbeInputs == {in \in NameInputs : in[2] \in {"", "other"} /\ in[3] \in {"foo", "default", "*"}}

\* C13: a synthesized name is a function of the module id, the kind, the
\* specifier and the key only: in every state of the Rewriter it is the name a
\* fresh Rewriter gives, whatever was produced before, and every name
\* recorded so far is the name of its record's own (kind, specifier, key);
\* different (specifier, key) pairs give different names, and names of
\* different kinds never coincide
C13_NamesDeterministic ==
  /\ NamesInjective
  /\ Analysed =>
       /\ \A in \in ProbeInputs : NameIn(hoist, in) = FreshNames[in]
       /\ \A i \in 1..Len(hoist.imported_symbols) :
            LET r == hoist.imported_symbols[i]
            IN r.local \in {NameIn(FreshHoist, <<"import", r.source, r.imported>>),
                            NameIn(FreshHoist, <<"importAsync", r.source, r.imported>>)}
       /\ \A name \in DOMAIN hoist.dynamic_imports :
            name = NameIn(FreshHoist, <<"importAsync", hoist.dynamic_imports[name], "*">>)
       /\ \A i \in 1..Len(hoist.exported_symbols) :
            LET r == hoist.exported_symbols[i]
            IN ~collect.should_wrap =>
                 \E k \in {r.exported} \cup {collect.exports[b] : b \in DOMAIN collect.exports} :
                   r.local = NameIn(FreshHoist, <<"export", "", k>>)

\* the same export name was produced twice, at two places of the module
C13_Witness ==
  /\ Done
  /\ \E i \in 1..Len(hoist.exported_symbols) : \E j \in 1..Len(hoist.exported_symbols) :
       /\ i < j
       /\ hoist.exported_symbols[i].exported = hoist.exported_symbols[j].exported
       /\ hoist.exported_symbols[i].local = hoist.exported_symbols[j].local
       /\ hoist.exported_symbols[i].loc # hoist.exported_symbols[j].loc
       /\ hoist.exported_symbols[i].local = ExportName("foo")

\* the first item is `const {foo} = await import('other')` or the `{foo: bar}` form
DestructuresDynImport == module # <<>> /\ module[1] \in {DynAwaitFoo(1), DynAwaitFooBar(1)}
\* the binding the declaration introduces
DynLocal == IF module[1] = DynAwaitFoo(1) THEN <<"foo", GlobalCtxt>> ELSE <<"bar", GlobalCtxt>>
OtherAsyncName == "$" \o module_id \o "$importAsync$" \o hash("other")
OtherAsyncFooName == OtherAsyncName \o "$" \o hash("foo")

\* the records the step added to the imported symbols
AddedImports == SubSeq(hoist'.imported_symbols, Len(hoist.imported_symbols) + 1,
                       Len(hoist'.imported_symbols))

\* the step of the Analyzer over the declaration
C14_CollectStep ==
  /\ DynLocal \in DOMAIN collect'.imports
  /\ LET fact == collect'.imports[DynLocal]
     IN fact.source = "other" /\ fact.specifier = "foo" /\ fact.kind = "DynamicImport"
  /\ DOMAIN collect'.imports = DOMAIN collect.imports \cup {DynLocal}
  /\ collect'.non_static_requires = collect.non_static_requires

\* the step of the Rewriter over the declaration
C14_FoldStep ==
  /\ Len(AddedImports) = 1
  /\ AddedImports[1].source = "other"
  /\ AddedImports[1].imported = "foo"
  /\ AddedImports[1].local = OtherAsyncFooName
  /\ hoist'.dynamic_imports = MapPut(hoist.dynamic_imports, OtherAsyncName, "other")
  /\ DOMAIN hoist'.dynamic_imports = {OtherAsyncName}

\* C14 as stated: for `const {foo} = await import('x')`, in every module, the
\* Analyzer records one import fact and leaves non_static_requires alone, and
\* the Rewriter adds exactly one record keyed foo, one dynamic-import entry
\* and no `*` record
C14_AsStated ==
  [][(DestructuresDynImport /\ idx = 1) =>
       /\ pc = "collect" => C14_CollectStep
       /\ pc = "fold" => C14_FoldStep]_vars

\* C14: for `const {foo} = await import('x')` (likewise `{foo: bar}`) the
\* Analyzer records one import fact (binding -> x, foo, dynamic import) and
\* does not touch non_static_requires; if the module is not wrapped and x is
\* not in non_static_requires, the Rewriter adds, for the declaration,
\* exactly one imported-symbol record keyed foo with local name
\* $<id>$importAsync$<hash(x)>$<hash(foo)>, the one dynamic-import entry
\* $<id>$importAsync$<hash(x)> -> x, and no `*` record; every later
\* reference to the binding adds one more record with the same fields
C14_DynImportDestructure ==
  [][/\ (DestructuresDynImport /\ idx = 1) =>
          /\ pc = "collect" => C14_CollectStep
          /\ (pc = "fold" /\ ~collect.should_wrap
                /\ "other" \notin collect.non_static_requires) => C14_FoldStep
     /\ (DestructuresDynImport /\ Folding /\ idx > 1 /\ ~collect.should_wrap
           /\ "other" \notin collect.non_static_requires
           /\ module[idx] \in {LogFoo(idx), LogBar(idx)}
           /\ <<module[idx].expr.args[1].sym, GlobalCtxt>> = DynLocal) =>
          /\ Len(AddedImports) = 1
          /\ AddedImports[1] = hoist.imported_symbols[1]]_vars

C14_Witness ==
  /\ IsOk
  /\ DestructuresDynImport
  /\ module[1] = DynAwaitFooBar(1)
  /\ Len(module) = 2
  /\ module[2] = LogBar(2)
  /\ Len(result.result.imported_symbols) = 2
  /\ result.result.imported_symbols[1].local = OtherAsyncFooName
  /\ DOMAIN result.result.dynamic_imports = {OtherAsyncName}

\* a call require('<specifier>')
IsRequireCall(e) ==
  e.t = "Call" /\ e.callee.t = "Ident" /\ e.callee.sym = "require"
  /\ Len(e.args) = 1 /\ e.args[1].t = "Str"
\* the item is a statement whose expression is a comma sequence
IsSeqStmt(item) == item.t = "ExprStmt" /\ item.expr.t = "Seq"
\* the namespace identifier that replaces require('<specifier>')
RequireIdent(e) ==
  mkIdent("$" \o module_id \o "$import$" \o hash(e.args[1].value), EmptyCtxt, e.span)

\* the sequence as the claim describes its output
GuardedSeq(exprs) ==
  [i \in 1..Len(exprs) |->
     IF ~IsRequireCall(exprs[i]) THEN exprs[i]
     ELSE IF i < Len(exprs) THEN mkUnary("!", RequireIdent(exprs[i]), DUMMY_SP)
     ELSE RequireIdent(exprs[i])]

\* the side-effect imports of the required operands, left to right
SeqImports(exprs) ==
  LET reqs == SelectSeq(exprs, IsRequireCall)
  IN [i \in 1..Len(reqs) |-> SideEffectImport(reqs[i].args[1].value)]

\* C15: the Rewriter replaces a statement `e1, ..., en` by the side-effect
\* imports of its require operands, in operand order, followed by the
\* sequence with the same number and order of operands, in which every
\* require operand but the last is !<import identifier> and a require in the
\* last position is the bare import identifier
C15_SequenceGuard ==
  [][(Folding /\ IsSeqStmt(module[idx])) =>
       hoist'.module_items =
         hoist.module_items \o SeqImports(module[idx].expr.exprs)
         \o <<Stmt(mkSeq(GuardedSeq(module[idx].expr.exprs)), idx)>>]_vars

\* both sequences were rewritten: `!a, !b, 1` and `1, a`
C15_Witness ==
  /\ IsOk
  /\ Len(module) = 2
  /\ module[1] = SeqRequires(1)
  /\ module[2] = SeqLast(2)
  /\ Len(result.module) = 5
  /\ result.module[3].expr.exprs[1].t = "Unary"
  /\ result.module[3].expr.exprs[2].t = "Unary"
  /\ result.module[5].expr.exprs[2].t = "Ident"

\* the item is the statement `require('other');`
IsBareRequire(item) == item = RequireOther(item.span[1])

\* C16: a top-level statement that is exactly `require('x')` changes nothing
\* in the Analyzer (no import fact, no entry in wrapped_requires or
\* non_static_requires), and the Rewriter replaces it by exactly one
\* side-effect import of <id>:x at its position and changes nothing else: no
\* imported-symbol record, not even `*`
C16_BareRequire ==
  [][(idx <= Len(module) /\ module[idx].t = "ExprStmt" /\ IsBareRequire(module[idx])) =>
       /\ pc = "collect" => collect' = collect
       /\ pc = "fold" =>
            hoist' = [hoist EXCEPT !.module_items = Append(@, SideEffectImport("other"))]]_vars

\* `const m = require('other'); m.foo; require('other');` was rewritten: the
\* statement became the second import of the output, after the use of m
C16_Witness ==
  /\ IsOk
  /\ Len(module) = 3
  /\ module[1] = ConstRequireM(1)
  /\ module[2] = MFoo(2)
  /\ module[3] = RequireOther(3)
  /\ Len(result.module) = 3
  /\ result.module[3] = SideEffectImport("other")
  /\ Len(result.result.imported_symbols) = 1
  /\ result.result.wrapped_requires = {}

\* the `this` expressions of an item
ThisIn(item) == {e \in ExprsOfItem(item, TRUE) : e.t = "This"}

\* what the claim makes of a bare `this` outside any function
RewrittenThis(sp) ==
  IF collect.is_esm THEN mkIdent("undefined", EmptyCtxt, DUMMY_SP)
  ELSE IF collect.should_wrap THEN mkThis(sp)
  ELSE mkIdent("$" \o module_id \o "$exports", EmptyCtxt, sp)

\* what the claim makes of `this.foo` outside any function
RewrittenThisFoo(member) ==
  IF ~collect.is_esm /\ ~collect.should_wrap /\ collect.static_cjs_exports
  THEN mkIdent("$" \o module_id \o "$export$" \o hash("foo"), EmptyCtxt, member.span)
  ELSE [member EXCEPT !.obj = RewrittenThis(member.obj.span)]

\* the self-reference the rewrite of a bare `this` records
SelfRefsOfThis == IF collect.is_esm \/ collect.should_wrap THEN {} ELSE {"*"}
\* the self-reference the rewrite of `this.foo` records
SelfRefsOfThisFoo ==
  IF collect.is_esm \/ collect.should_wrap THEN {}
  ELSE IF collect.static_cjs_exports THEN {"foo"} ELSE {"*"}

\* the item the step appended to the body
Emitted == hoist'.module_items[Len(hoist'.module_items)]

\* this.foo
ThisFooAt(l, r) == mkMember(mkThis(<<l, r>>), P("foo", l, r + 2), FALSE, <<l, r + 1>>)
\* () { return this; }, the function of a method
ReturnThis(l) == mkFunction(<<>>, <<mkReturn(mkThis(<<l, 8>>), <<l, 7>>)>>)

\* ({get [key]() { return this; }})
GetterKeyOf(key, l) ==
  Stmt(mkObject(<<mkGetter(pnComputed(key), <<mkReturn(mkThis(<<l, 8>>), <<l, 7>>)>>)>>), l)
\* ({get [this.foo]() { return this; }})
GetterKeyThis(l) == GetterKeyOf(ThisFooAt(l, 1), l)
\* ({set [key](v) { this.foo; }})
SetterKeyOf(key, l) ==
  Stmt(mkObject(<<mkSetter(pnComputed(key), patIdent(L("v", l, 6)),
                           <<Stmt(ThisFooAt(l, 8), l)>>)>>), l)
\* ({set [this](v) { this.foo; }})
SetterKeyThis(l) == SetterKeyOf(mkThis(<<l, 1>>), l)
\* ({[key]() { return this; }})
MethodKeyOf(key, l) == Stmt(mkObject(<<mkMethod(pnComputed(key), ReturnThis(l))>>), l)
\* ({[this.foo]() { return this; }})
MethodKeyThis(l) == MethodKeyOf(ThisFooAt(l, 1), l)
\* (class { m() { return this; } })
ClassThis(l) ==
  Stmt(mkClassExpr(mkClass(None, <<mkClassMethod(pnIdent("m"), ReturnThis(l))>>)), l)
\* (class extends <heritage> { m() { return this; } })
ClassHeritageOf(heritage, l) ==
  Stmt(mkClassExpr(mkClass(heritage, <<mkClassMethod(pnIdent("m"), ReturnThis(l))>>)), l)
\* (class extends this.foo { m() { return this; } })
ClassHeritageThis(l) == ClassHeritageOf(ThisFooAt(l, 1), l)
\* (class { [this.foo]() { return this; } })
ClassKeyThis(l) ==
  Stmt(mkClassExpr(mkClass(None,
         <<mkClassMethod(pnComputed(ThisFooAt(l, 1)), ReturnThis(l))>>)), l)

\* the statements with a `this`, on line l
ScopeForms(l) ==
  << LogThis(l), LogThisFoo(l), ArrowThis(l), FnThis(l), AccessorThis(l), GetterKeyThis(l),
     SetterKeyThis(l), MethodKeyThis(l), ClassThis(l), ClassHeritageThis(l), ClassKeyThis(l) >>

NumScopeForms == Len(ScopeForms(1))

\* the increasing sequences of at most n indices of ScopeForms
RECURSIVE IncScopes(_)
IncScopes(n) ==
  IF n = 0 THEN {<<>>}
  ELSE LET shorter == IncScopes(n - 1)
       IN shorter \cup
          {Append(s, k) : <<s, k>> \in
             {p \in shorter \X (1..NumScopeForms) :
                Len(p[1]) = n - 1 /\ (p[1] = <<>> \/ p[1][Len(p[1])] < p[2])}}

\* up to MaxUses statements of ScopeForms in catalogue order, after an ESM
\* import or not, before an eval (which wraps the module) or not
ScopeModules ==
  LET bodies(first) ==
        {[i \in 1..Len(ks) |-> ScopeForms(first + i - 1)[ks[i]]] :
           ks \in IncScopes(MaxUses) \ {<<>>}}
      open == bodies(1) \cup {<<ImportX(1)>> \o body : body \in bodies(2)}
  IN open \cup {body \o <<EvalCall(Len(body) + 1)>> : body \in open}

InitScopes ==
  /\ module \in ScopeModules
  /\ module_span \in ModuleSpans
  /\ trace_bailouts \in BOOLEAN
  /\ collect = Collect_new(collect_decls(module), trace_bailouts)
  /\ hoist = None
  /\ pc = "collect"
  /\ idx = 1
  /\ result = None

SpecScopes == InitScopes /\ [][Next]_vars

\* the items whose `this` all lie in the body of a function, class, getter or
\* setter
ThisInBodies(l) == {FnThis(l), AccessorThis(l), ClassThis(l), ClassKeyThis(l)}

\* C17: a `this` outside any function, class, getter or setter body, inside
\* an arrow function or not, becomes `undefined` in an ESM module; in an
\* unwrapped CommonJS module bare `this` becomes $<id>$exports and, with
\* static exports, `this.KEY` becomes $<id>$export$<hash(KEY)>, each recording
\* a self-reference; in a wrapped CommonJS module it is unchanged.  This holds
\* for a `this` in the computed key of a method, a getter or a setter and in
\* the heritage of a class, which lie outside the body.  A `this` inside a
\* function, class, getter or setter body is unchanged and records nothing
C17_TopLevelThis ==
  [][Folding =>
       /\ module[idx] = LogThis(idx) =>
            /\ Emitted = Log(<<RewrittenThis(<<idx, 10>>)>>, idx)
            /\ hoist'.self_references = hoist.self_references \cup SelfRefsOfThis
       /\ module[idx] = LogThisFoo(idx) =>
            /\ Emitted = Log(<<RewrittenThisFoo(module[idx].expr.args[1])>>, idx)
            /\ hoist'.self_references = hoist.self_references \cup SelfRefsOfThisFoo
       /\ module[idx] = ArrowThis(idx) =>
            /\ Emitted = Stmt(mkArrow(<<>>, RewrittenThisFoo(module[idx].expr.body)), idx)
            /\ hoist'.self_references = hoist.self_references \cup SelfRefsOfThisFoo
       /\ module[idx] = MethodKeyThis(idx) =>
            /\ Emitted = MethodKeyOf(RewrittenThisFoo(ThisFooAt(idx, 1)), idx)
            /\ hoist'.self_references = hoist.self_references \cup SelfRefsOfThisFoo
       /\ module[idx] = GetterKeyThis(idx) =>
            /\ Emitted = GetterKeyOf(RewrittenThisFoo(ThisFooAt(idx, 1)), idx)
            /\ hoist'.self_references = hoist.self_references \cup SelfRefsOfThisFoo
       /\ module[idx] = SetterKeyThis(idx) =>
            /\ Emitted = SetterKeyOf(RewrittenThis(<<idx, 1>>), idx)
            /\ hoist'.self_references = hoist.self_references \cup SelfRefsOfThis
       /\ module[idx] = ClassHeritageThis(idx) =>
            /\ Emitted = ClassHeritageOf(RewrittenThisFoo(ThisFooAt(idx, 1)), idx)
            /\ hoist'.self_references = hoist.self_references \cup SelfRefsOfThisFoo
       /\ module[idx] \in ThisInBodies(idx) =>
            /\ ThisIn(Emitted) = ThisIn(module[idx])
            /\ ThisIn(Emitted) # {}
            /\ hoist'.self_references = hoist.self_references
            /\ hoist'.exported_symbols = hoist.exported_symbols
            /\ hoist'.in_function_scope = FALSE]_vars

\* the records the step added to the exported symbols
AddedExports == SubSeq(hoist'.exported_symbols, Len(hoist.exported_symbols) + 1,
                       Len(hoist'.exported_symbols))

\* C18: the Rewriter's step over `export default function`: in an unwrapped
\* module, or for an anonymous declaration, the declaration is named
\* $<id>$export$<hash('default')> and one exported-symbol record for
\* `default` with that local name is added; in a wrapped module a named
\* declaration keeps its name and one exported-symbol record
\* {local: its name, exported: default} is added
C18_ExportDefaultDecl ==
  [][(Folding /\ module[idx].t = "ExportDefaultDecl") =>
       LET local == IF collect.should_wrap /\ module[idx].ident # None
                    THEN module[idx].ident.sym
                    ELSE ExportName("default")
       IN /\ Emitted.t = "FnDecl"
          /\ Emitted.ident.sym = local
          /\ Len(AddedExports) = 1
          /\ AddedExports[1].local = local
          /\ AddedExports[1].exported = "default"]_vars

\* the records the step added to the re-exports
AddedReExports == SubSeq(hoist'.re_exports, Len(hoist.re_exports) + 1, Len(hoist'.re_exports))

\* the item is `export {...}` without a source
IsLocalExport(item) == item.t = "ExportNamed" /\ item.src = ""

\* the name a reference to the binding is rewritten to
ReferenceName(ident) == fold_ident(ident, hoist).n.sym

\* C19: the Rewriter's step over a source-less `export {x as e}`: a specifier
\* whose x is an import binding adds one re-export record {source and key of
\* x, local: e} and no exported-symbol record; any other specifier adds an
\* exported-symbol record {local, exported: e}, and every exported-symbol
\* record the step adds carries as its local the one name that the
\* references to x are rewritten to
C19_LocalExport ==
  [][(Folding /\ IsLocalExport(module[idx])) =>
       LET specs == module[idx].specifiers
           IsImport(s) == id(s.orig) \in DOMAIN collect.imports
           imported == SelectSeq(specs, IsImport)
           local == {i \in 1..Len(specs) : ~IsImport(specs[i])}
       IN /\ Len(AddedReExports) = Len(imported)
          /\ \A i \in 1..Len(imported) :
               /\ AddedReExports[i].source = collect.imports[id(imported[i].orig)].source
               /\ AddedReExports[i].imported = collect.imports[id(imported[i].orig)].specifier
               /\ AddedReExports[i].local = imported[i].exported
          /\ local = {} => AddedExports = <<>>
          /\ \A i \in local :
               \E j \in 1..Len(AddedExports) :
                 /\ AddedExports[j].exported = specs[i].exported
                 /\ AddedExports[j].local = ReferenceName(specs[i].orig)
          /\ \A j \in 1..Len(AddedExports) :
               \E i \in local : AddedExports[j].local = ReferenceName(specs[i].orig)]_vars

\* the binding whose declaration on the first line the Rewriter removes: the
\* local of an ESM import specifier, or of a hoisted top-level require
RemovedBinding ==
  IF module = <<>> THEN {}
  ELSE IF module[1] \in {ImportStarM(1), ImportX(1)}
  THEN {module[1].specifiers[1].local.sym}
  ELSE IF module[1] \in {ConstRequireM(1), ConstXRequire(1)}
          /\ "other" \notin collect.non_static_requires
  THEN {b[1] : b \in BindingIds(module[1].decls[1].name)}
  ELSE {}

\* C20: no reference to an import binding whose declaration was removed is
\* left in the output under its original name or as $<id>$var$<name>,
\* whatever else the module does with the same specifier
C20_ImportReferences ==
  IsOk =>
    \A name \in RemovedBinding :
      \A e \in IdentsOf(result.module) :
        e.sym \notin {name, "$" \o module_id \o "$var$" \o name}

(* ----------------------------------------------------------------------- *)
(* Inputs: syntactic forms.  A module is an optional declaration of        *)
(* FormHeads, then at most MaxForms statements of Forms in catalogue       *)
(* order, then an optional `eval('1')`, which makes the module wrapped.    *)
(* ----------------------------------------------------------------------- *)

\* most statements between the declaration and the eval call
MaxForms == 1

\* console.log(y)
LogY(l) == Log(<<G("y", l, 10)>>, l)
\* ({x})
ShorthandX(l) == Stmt(mkObject(<<mkShorthand(G("x", l, 2))>>), l)
\* console.log(module.hot)
LogModuleHot(l) == Log(<<mkMember(G("module", l, 10), P("hot", l, 12), FALSE, <<l, 11>>)>>, l)

\* console.log(typeof require)
TypeofRequire(l) == Log(<<mkUnary("typeof", G("require", l, 11), <<l, 10>>)>>, l)

\* var exports = 1
VarExports(l) ==
  mkVarDecl("var", <<mkDeclarator(patIdent(G("exports", l, 3)), mkNum(1), <<l, 2>>)>>, <<l, 1>>)
\* var module = 1
VarModule(l) ==
  mkVarDecl("var", <<mkDeclarator(patIdent(G("module", l, 3)), mkNum(1), <<l, 2>>)>>, <<l, 1>>)
\* (function (exports) { exports.foo = 2; })
FnParamExports(l) ==
  Stmt(mkFn(mkFunction(<<patIdent(L("exports", l, 2))>>,
                       <<Stmt(mkAssign(patExpr(mkMember(L("exports", l, 4), P("foo", l, 6),
                                                        FALSE, <<l, 5>>)),
                                       mkNum(2), <<l, 7>>), l)>>)), l)
\* ((exports) => exports[k])
ArrowParamExports(l) ==
  Stmt(mkArrow(<<patIdent(L("exports", l, 2))>>,
               mkMember(L("exports", l, 4), G("k", l, 6), TRUE, <<l, 5>>)), l)

\* import('dyn');
DynBare(l) == Stmt(ImportDyn(l, 1), l)
\* let p = import('dyn')
LetDyn(l) ==
  mkVarDecl("let", <<mkDeclarator(patIdent(G("p", l, 3)), ImportDyn(l, 5), <<l, 2>>)>>, <<l, 1>>)
\* import('dyn').then(cb)
DynThenIdent(l) ==
  Stmt(mkCall(mkMember(ImportDyn(l, 1), P("then", l, 6), FALSE, <<l, 3>>),
              <<G("cb", l, 8)>>, <<l, 4>>), l)
\* import('dyn').then(ns => ns.foo)
DynThenParam(l) ==
  Stmt(mkCall(mkMember(ImportDyn(l, 1), P("then", l, 6), FALSE, <<l, 3>>),
              <<mkArrow(<<patIdent(L("ns", l, 7))>>,
                        mkMember(L("ns", l, 8), P("foo", l, 10), FALSE, <<l, 9>>))>>,
              <<l, 4>>), l)
\* const {foo} = await import('dyn')
DynAwaitKey(l) ==
  ConstDecl(patObject(<<ppAssign(G("foo", l, 4), None)>>, <<l, 3>>), mkAwait(ImportDyn(l, 6)), l)
\* const ns = await import('dyn')
DynAwaitNs(l) == ConstDecl(patIdent(G("ns", l, 3)), mkAwait(ImportDyn(l, 6)), l)
\* function f() { import('dyn'); }
FnDynBare(l) == mkFnDecl(G("f", l, 2), mkFunction(<<>>, <<Stmt(ImportDyn(l, 4), l)>>))
\* console.log(import('dyn'))
LogDyn(l) == Log(<<ImportDyn(l, 10)>>, l)

\* function f() { require('a'); }
FnRequire(l) == mkFnDecl(G("f", l, 2), mkFunction(<<>>, <<Stmt(Require("a", l, 4), l)>>))
\* function f() { var v = require('a'); }
FnVarRequire(l) ==
  mkFnDecl(G("f", l, 2),
           mkFunction(<<>>, <<mkVarDecl("var", <<mkDeclarator(patIdent(L("v", l, 4)),
                                                              Require("a", l, 6), <<l, 5>>)>>,
                                        <<l, 3>>)>>))
\* g(require('a'))
CallArgRequire(l) == Stmt(mkCall(G("g", l, 1), <<Require("a", l, 4)>>, <<l, 2>>), l)
\* o[require('a')]
ComputedRequire(l) == Stmt(mkMember(G("o", l, 1), Require("a", l, 4), TRUE, <<l, 2>>), l)
\* require('a').b.k
RequireChain(l) ==
  Stmt(mkMember(mkMember(Require("a", l, 1), P("b", l, 4), FALSE, <<l, 3>>), P("k", l, 7),
                FALSE, <<l, 6>>), l)
\* (() => require('a'))
ArrowRequire(l) == Stmt(mkArrow(<<>>, Require("a", l, 4)), l)
\* ({k: require('a')})
ObjRequire(l) == Stmt(mkObject(<<mkKeyValue(pnIdent("k"), Require("a", l, 4))>>), l)
\* const v = require('a')
ConstRequireA(l) == ConstDecl(patIdent(G("v", l, 3)), Require("a", l, 5), l)
\* const v = require('a').foo
ConstRequireMember(l) ==
  ConstDecl(patIdent(G("v", l, 3)),
            mkMember(Require("a", l, 5), P("foo", l, 8), FALSE, <<l, 7>>), l)

\* const <pat> = require('s1')
DestrS1(props, l) == ConstDecl(patObject(props, <<l, 3>>), Require("s1", l, 7), l)
\* const {k1} = require('s1')
DestrKey(l) == DestrS1(<<ppAssign(G("k1", l, 4), None)>>, l)
\* const {k1: v1} = require('s1')
DestrKeyLocal(l) == DestrS1(<<ppKeyValue(pnIdent("k1"), patIdent(G("v1", l, 5)))>>, l)
\* const {'k1': v1} = require('s1')
DestrStrLocal(l) == DestrS1(<<ppKeyValue(pnStr("k1"), patIdent(G("v1", l, 5)))>>, l)
\* const {k1 = 1} = require('s1')
DestrDefault(l) == DestrS1(<<ppAssign(G("k1", l, 4), mkNum(1))>>, l)
\* const {k1, ...v2} = require('s1')
DestrRest(l) == DestrS1(<<ppAssign(G("k1", l, 4), None), ppRest(patIdent(G("v2", l, 6)))>>, l)
\* const {[x]: v1} = require('s1')
DestrComputed(l) ==
  DestrS1(<<ppKeyValue(pnComputed(G("x", l, 4)), patIdent(G("v1", l, 5)))>>, l)
\* const {k1: {v1}} = require('s1')
DestrNested(l) ==
  DestrS1(<<ppKeyValue(pnIdent("k1"),
                       patObject(<<ppAssign(G("v1", l, 5), None)>>, <<l, 4>>))>>, l)

\* const x = require('other')
ConstRequireX(l) == ConstDecl(patIdent(G("x", l, 3)), Require("other", l, 5), l)

\* function test() { var x = 3; return x; }
FnLocalX(l) ==
  mkFnDecl(G("test", l, 2),
           mkFunction(<<>>,
                      <<mkVarDecl("var", <<mkDeclarator(patIdent(L("x", l, 4)), mkNum(3), <<l, 3>>)>>,
                                  <<l, 3>>),
                        mkReturn(L("x", l, 6), <<l, 5>>)>>))
\* ({x: 3})
KeyX(l) == Stmt(mkObject(<<mkKeyValue(pnIdent("x"), mkNum(3))>>), l)
\* ({[x]: 4})
ComputedKeyX(l) == Stmt(mkObject(<<mkKeyValue(pnComputed(G("x", l, 2)), mkNum(4))>>), l)
\* o.x
MemberX(l) == Stmt(mkMember(G("o", l, 1), P("x", l, 3), FALSE, <<l, 2>>), l)
\* o[x]
ComputedMemberX(l) == Stmt(mkMember(G("o", l, 1), G("x", l, 3), TRUE, <<l, 2>>), l)
\* ({x} = o)
ShorthandPatX(l) ==
  Stmt(mkAssign(patObject(<<ppAssign(G("x", l, 2), None)>>, <<l, 1>>), G("o", l, 4), <<l, 3>>), l)

\* const {k2, k3} = require('s1')
DestrTwo(l) == DestrS1(<<ppAssign(G("k2", l, 4), None), ppAssign(G("k3", l, 5), None)>>, l)
\* o.p[exports[k] = 1] = 2
NestedExportsComputed(l) ==
  Stmt(mkAssign(patExpr(mkMember(mkMember(G("o", l, 1), P("p", l, 3), FALSE, <<l, 2>>),
                                 mkAssign(patExpr(mkMember(G("exports", l, 6), G("k", l, 8),
                                                           TRUE, <<l, 7>>)),
                                          mkNum(1), <<l, 9>>),
                                 TRUE, <<l, 4>>)),
                mkNum(2), <<l, 10>>), l)

FormHeads(l) ==
  << VarX(l), ExportVarY(l), ConstXRequire(l), ConstRequireX(l), VarExports(l), VarModule(l) >>

Forms(l) ==
  << LogX(l), LogY(l), ShorthandX(l), LogExports(l), LogExportsFoo(l), ExportsFooAssign(l),
     LogModuleExportsBar(l), ModuleExportsBar(l), LogModuleHot(l), LogThis(l), LogThisFoo(l),
     ThisFoo(l), TypeofModule(l), TypeofRequire(l), ExportsComputed(l), LogModule(l),
     FnParamExports(l), ArrowParamExports(l), DynBare(l), LetDyn(l), DynThenIdent(l),
     DynThenNoParam(l), DynThenRest(l), DynAwaitRest(l), DynThenParam(l), DynAwaitKey(l),
     DynAwaitNs(l), FnDynBare(l), LogDyn(l), FnRequire(l), FnVarRequire(l), CallArgRequire(l),
     SeqLast(l), ComputedRequire(l), RequireChain(l), ArrowRequire(l), ObjRequire(l),
     RequireStmt(l), ConstRequireA(l), ConstRequireMember(l), DestrKey(l), DestrKeyLocal(l),
     DestrStrLocal(l), DestrDefault(l), DestrRest(l), DestrComputed(l), DestrNested(l),
     AssignX(l), NestedAssign(l), FnLocalX(l), KeyX(l), ComputedKeyX(l), MemberX(l),
     ComputedMemberX(l), ShorthandPatX(l), DestrTwo(l), NestedExportsComputed(l) >>

NumForms == Len(Forms(1))

\* the strictly increasing sequences of at most n indices of Forms
RECURSIVE IncForms(_)
IncForms(n) ==
  IF n = 0 THEN {<<>>}
  ELSE LET shorter == IncForms(n - 1)
       IN shorter \cup
          {Append(s, k) : <<s, k>> \in
             {p \in shorter \X (1..NumForms) :
                Len(p[1]) = n - 1 /\ (p[1] = <<>> \/ p[1][Len(p[1])] < p[2])}}

\* the statements of a module, on the lines from `first`
FormBodies(first) ==
  {[i \in 1..Len(ks) |-> Forms(first + i - 1)[ks[i]]] : ks \in IncForms(MaxForms)}

\* the top-level bindings an item declares
TopDecls(item) == {d \in DeclsOfItem(item) : d[2] = GlobalCtxt}

\* no two items of the body declare the same top-level binding
NoRedeclaration(body) ==
  \A i, j \in 1..Len(body) : i < j => TopDecls(body[i]) \cap TopDecls(body[j]) = {}

FormModules ==
  LET headed == FormBodies(1) \cup
                {<<FormHeads(1)[d]>> \o body :
                   <<d, body>> \in (1..Len(FormHeads(1))) \X FormBodies(2)}
      valid == {body \in headed : NoRedeclaration(body)}
  IN valid \cup {body \o <<EvalCall(Len(body) + 1)>> : body \in valid}

InitForms ==
  /\ module \in FormModules
  /\ module_span \in ModuleSpans
  /\ trace_bailouts \in BOOLEAN
  /\ collect = Collect_new(collect_decls(module), trace_bailouts)
  /\ hoist = None
  /\ pc = "collect"
  /\ idx = 1
  /\ result = None

SpecForms == InitForms /\ [][Next]_vars

\* the forms that refer to an export binding, a declared binding, or the
\* CommonJS exports object; `this` is that object in a CommonJS module only
ExportObjectForms(l) ==
  {LogX(l), LogY(l), ShorthandX(l), LogExports(l), LogExportsFoo(l), ExportsFooAssign(l),
   LogModuleExportsBar(l), ModuleExportsBar(l), LogModuleHot(l)}
  \cup (IF collect.is_esm THEN {} ELSE {LogThis(l), LogThisFoo(l), ThisFoo(l)})

IdY == <<"y", GlobalCtxt>>

\* C21: in a wrapped module the Rewriter's step over a statement that refers
\* to an export binding, a top-level declared binding, exports,
\* module.exports, module.exports.KEY, exports.KEY, module.hot or CommonJS
\* top-level this leaves the statement as it is (no renaming, no expansion
\* of a shorthand property), leaves the self-references and the deferred
\* export declarations empty, and adds for a reference to the export binding
\* y the exported-symbol record {local: y, exported: its export name}; the
\* finished output has no deferred declaration.  In an unwrapped module the
\* reference to y becomes the synthesized export name, which is the local
\* name of the record it adds
C21_WrappedReferences ==
  [][/\ (Folding /\ collect.should_wrap) =>
          /\ module[idx] \in ExportObjectForms(idx) => Emitted = module[idx]
          /\ hoist'.self_references = {}
          /\ hoist'.export_decls = {}
          /\ (module[idx] = LogY(idx) /\ IdY \in DOMAIN collect.exports) =>
               AddedExports = <<[local |-> "y", exported |-> collect.exports[IdY],
                                 loc |-> <<idx, 10>>]>>
     /\ (Folding /\ ~collect.should_wrap /\ module[idx] = LogY(idx)
         /\ IdY \in DOMAIN collect.exports) =>
          /\ Emitted = Log(<<mkIdent(ExportName(collect.exports[IdY]), EmptyCtxt,
                                     <<idx, 10>>)>>, idx)
          /\ AddedExports = <<[local |-> ExportName(collect.exports[IdY]),
                                exported |-> collect.exports[IdY], loc |-> <<idx, 10>>]>>
     /\ (pc = "ret" /\ collect.should_wrap) =>
          /\ result'.result.self_references = {}
          /\ \A i \in 1..Len(result'.module) : ~IsDeferredVar(result'.module[i])
    ]_vars

\* the Analyzer is at an item of the module
Collecting == pc = "collect" /\ idx <= Len(module)

\* the step changes none of the four flags of the Analyzer
FlagsUnchanged ==
  /\ collect'.has_cjs_exports = collect.has_cjs_exports
  /\ collect'.static_cjs_exports = collect.static_cjs_exports
  /\ collect'.should_wrap = collect.should_wrap
  /\ collect'.is_esm = collect.is_esm

IdModule == <<"module", GlobalCtxt>>
IdRequire == <<"require", GlobalCtxt>>

\* the string literal that replaces a `typeof` expression
TypeofLit(value, sp) == [t |-> "Str", value |-> value, span |-> sp]

\* the Analyzer's step over `console.log(typeof module, module.hot)` and over
\* `console.log(typeof require)`, the non-static accesses `typeof require`
\* records being `recorded`
C22_CollectStep(recorded) ==
  /\ (module[idx] = TypeofModule(idx) /\ IdModule \notin collect.decls) =>
       /\ FlagsUnchanged
       /\ collect'.non_static_access = collect.non_static_access
  /\ (module[idx] = TypeofRequire(idx) /\ IdRequire \notin collect.decls) =>
       /\ FlagsUnchanged
       /\ collect'.non_static_access = recorded
  /\ (module[idx] = LogModuleHot(idx) /\ IdModule \notin collect.decls) =>
       /\ FlagsUnchanged
       /\ collect'.non_static_access = collect.non_static_access

\* the Rewriter's step over the same statements; `hot` is what module.hot
\* becomes at the span sp
C22_FoldStep(hot(_)) ==
  /\ (module[idx] = TypeofModule(idx) /\ IdModule \notin collect.decls) =>
       Emitted = Log(<<TypeofLit("object", <<idx, 10>>), hot(<<idx, 13>>)>>, idx)
  /\ (module[idx] = TypeofRequire(idx) /\ IdRequire \notin collect.decls) =>
       Emitted = Log(<<TypeofLit("function", <<idx, 10>>)>>, idx)
  /\ (module[idx] = LogModuleHot(idx) /\ IdModule \notin collect.decls) =>
       Emitted = Log(<<hot(<<idx, 11>>)>>, idx)

NullAt(sp) == mkNull(sp)
\* module.hot in a wrapped module stays, in an unwrapped module becomes null
HotAt(sp) ==
  IF collect.should_wrap
  THEN mkMember(G("module", sp[1], sp[2] - 1), P("hot", sp[1], sp[2] + 1), FALSE, sp)
  ELSE mkNull(sp)

\* C22 as stated: neither `typeof module` nor `typeof require` records a
\* non-static access, and module.hot always becomes a null literal
C22_AsStated ==
  [][/\ Collecting => C22_CollectStep(collect.non_static_access)
     /\ Folding => C22_FoldStep(NullAt)]_vars

\* C22: on undeclared module / require, `typeof module` and module.hot change
\* no flag of the Analyzer and record no non-static access; `typeof require`
\* changes no flag and records one non-static access of `require`; the
\* Rewriter replaces `typeof module` by "object" and `typeof require` by
\* "function", and module.hot by a null literal unless the module is wrapped,
\* where module.hot is left as it is
C22_TypeofSpecialCases ==
  [][/\ Collecting =>
          C22_CollectStep(MapPush(collect.non_static_access, IdRequire, <<idx, 11>>))
     /\ Folding => C22_FoldStep(HotAt)]_vars

\* console.log(typeof module, module.hot) in an unwrapped module
C22_Witness ==
  /\ IsOk
  /\ module = <<TypeofModule(1)>>
  /\ ~result.result.should_wrap
  /\ result.result.static_cjs_exports
  /\ ~result.result.has_cjs_exports
  /\ collect.non_static_access = <<>>
  /\ result.module = <<Log(<<TypeofLit("object", <<1, 10>>), mkNull(<<1, 13>>)>>, 1)>>

\* the references to `exports` and `module` in the item
CjsIdents(item) == {e \in IdentsOf(<<item>>) : e.sym \in {"exports", "module"}}

\* the item refers to `exports` or `module`, and only as declared bindings
RefersDeclaredCjs(item) ==
  /\ CjsIdents(item) # {}
  /\ \A e \in CjsIdents(item) : id(e) \in collect.decls

\* the renaming of a declared top-level binding in an unwrapped module
RenamedVar(e) ==
  IF id(e) \in collect.decls /\ e.ctxt = GlobalCtxt /\ ~collect.should_wrap
  THEN [e EXCEPT !.sym = "$" \o module_id \o "$var$" \o e.sym]
  ELSE e

\* C23: when `exports` or `module` is a declared binding (a top-level var, a
\* function or arrow parameter), the Analyzer's step over a statement that
\* accesses it, statically or computed, changes none of has_cjs_exports,
\* static_cjs_exports and should_wrap, and the Rewriter's step only renames
\* the identifiers as declared bindings: no export identifier, no exported
\* symbol, no self-reference and no deferred export declaration is produced
C23_DeclaredExports ==
  [][/\ (Collecting /\ RefersDeclaredCjs(module[idx])) =>
          /\ collect'.has_cjs_exports = collect.has_cjs_exports
          /\ collect'.static_cjs_exports = collect.static_cjs_exports
          /\ collect'.should_wrap = collect.should_wrap
     /\ (Folding /\ RefersDeclaredCjs(module[idx])) =>
          /\ Emitted.t = module[idx].t
          /\ IdentsOf(<<Emitted>>) = {RenamedVar(e) : e \in IdentsOf(<<module[idx]>>)}
          /\ Len(hoist'.module_items) = Len(hoist.module_items) + 1
          /\ AddedExports = <<>>
          /\ hoist'.self_references = hoist.self_references
          /\ hoist'.export_decls = hoist.export_decls]_vars

\* var module = 1; module.exports.bar = 3 becomes $<id>$var$module.exports.bar = 3
C23_Witness ==
  /\ IsOk
  /\ module = <<VarModule(1), ModuleExportsBar(2)>>
  /\ ~result.result.has_cjs_exports
  /\ result.result.static_cjs_exports
  /\ ~result.result.should_wrap
  /\ result.result.exported_symbols = <<>>
  /\ result.module[2] =
       Stmt(mkAssign(
              patExpr(mkMember(
                        mkMember(mkIdent("$" \o module_id \o "$var$module", GlobalCtxt, <<2, 1>>),
                                 P("exports", 2, 6), FALSE, <<2, 2>>),
                        P("bar", 2, 7), FALSE, <<2, 3>>)),
              mkNum(3), <<2, 4>>), 2)

\* the statements whose import('dyn') is consumed neither by an `await`
\* initializer nor by a `.then` callback with a first parameter, or whose
\* result is destructured with a rest pattern
NonStaticDynForms(l) ==
  {DynBare(l), LetDyn(l), DynThenIdent(l), DynThenNoParam(l), DynThenRest(l), DynAwaitRest(l),
   FnDynBare(l), LogDyn(l)}

\* the statements that consume import('dyn') statically
StaticDynForms(l) == {DynThenParam(l), DynAwaitKey(l), DynAwaitNs(l)}

\* C24: the Analyzer's step over a statement with a dynamic import('dyn') that
\* is not consumed statically (bare, `let p = import(..)`, `.then(cb)`,
\* `.then(() => ..)`, inside a function, as a call argument) or whose result
\* is destructured with a rest pattern (in a `.then` callback or from
\* `await`) puts 'dyn' into both the non-static-requires and the
\* wrapped-requires set; the step over a statically consumed form leaves the
\* non-static-requires set as it was
C24_DynamicImport ==
  [][Collecting =>
       /\ module[idx] \in NonStaticDynForms(idx) =>
            /\ "dyn" \in collect'.non_static_requires
            /\ "dyn" \in collect'.wrapped_requires
       /\ module[idx] \in StaticDynForms(idx) =>
            collect'.non_static_requires = collect.non_static_requires]_vars

\* the statements with require('a') outside the hoistable positions: in a
\* function body, in a declarator inside a function, as a call argument, as
\* a sequence operand, as a computed member property, under a member chain,
\* as an arrow body, as a property value
NestedRequireForms(l) ==
  {FnRequire(l), FnVarRequire(l), CallArgRequire(l), SeqLast(l), ComputedRequire(l),
   RequireChain(l), ArrowRequire(l), ObjRequire(l)}

\* the statements with require('a') in a hoistable position: a bare
\* top-level statement, the initializer of a top-level declarator, the
\* object of its member-access initializer
HoistableRequireForms(l) == {RequireStmt(l), ConstRequireA(l), ConstRequireMember(l)}

\* C25: the Analyzer's step over a statement with a require('a') that is not
\* in a hoistable position puts 'a' into the wrapped-requires set, wherever
\* in the tree the call is; the step over a require in a hoistable position
\* leaves the wrapped-requires set as it was
C25_WrappedRequires ==
  [][Collecting =>
       /\ module[idx] \in NestedRequireForms(idx) => "a" \in collect'.wrapped_requires
       /\ module[idx] \in HoistableRequireForms(idx) =>
            collect'.wrapped_requires = collect.wrapped_requires]_vars

\* the statements `const P = require('s1')` whose object pattern P has only
\* static keys
StaticDestrForms(l) == {DestrKey(l), DestrKeyLocal(l), DestrStrLocal(l), DestrDefault(l)}
\* those whose P has a rest element, a computed key or a nested pattern
NonStaticDestrForms(l) == {DestrRest(l), DestrComputed(l), DestrNested(l)}

\* the bindings of P under a static key, each with its key
StaticKeysOf(props) ==
  {<<id(props[i].key), props[i].key.sym>> :
     i \in {j \in 1..Len(props) : props[j].t = "AssignPatProp"}}
  \cup
  {<<id(props[i].value.id),
     IF props[i].key.t = "PnIdent" THEN props[i].key.sym ELSE props[i].key.value>> :
     i \in {j \in 1..Len(props) :
              /\ props[j].t = "KeyValuePat"
              /\ props[j].key.t # "PnComputed"
              /\ props[j].value.t = "PatIdent"}}

\* the name a top-level variable has in the output
VarSym(sym) == IF collect.should_wrap THEN sym ELSE "$" \o module_id \o "$var$" \o sym

\* C26: for a top-level `const P = require('s1')` with an object pattern P the
\* Analyzer's step records for each property with a static key k (`k`,
\* `k: local`, `'k': local`, `k = default`) the import fact local -> (s1, k);
\* a rest element, a computed key or a nested pattern puts s1 into the
\* non-static-requires set, and then the Rewriter's step hoists the import,
\* keeps the declarator with the namespace identifier $<id>$import$<hash(s1)>
\* as its initializer, and names the bindings of P as top-level variables
C26_RequireDestructuring ==
  [][/\ (Collecting /\ module[idx] \in StaticDestrForms(idx) \cup NonStaticDestrForms(idx)) =>
          /\ module[idx] \in StaticDestrForms(idx) =>
               Cardinality(StaticKeysOf(module[idx].decls[1].name.props)) = 1
          /\ \A b \in StaticKeysOf(module[idx].decls[1].name.props) :
               /\ b[1] \in DOMAIN collect'.imports
               /\ collect'.imports[b[1]].source = "s1"
               /\ collect'.imports[b[1]].specifier = b[2]
               /\ collect'.imports[b[1]].kind = "Require"
          /\ DOMAIN collect'.imports =
               DOMAIN collect.imports
               \cup {b[1] : b \in StaticKeysOf(module[idx].decls[1].name.props)}
          /\ module[idx] \in NonStaticDestrForms(idx) => "s1" \in collect'.non_static_requires
     /\ (Folding /\ module[idx] \in NonStaticDestrForms(idx)) =>
          /\ Len(hoist'.module_items) = Len(hoist.module_items) + 2
          /\ hoist'.module_items[Len(hoist.module_items) + 1] =
               mkImport(module_id \o ":s1", <<>>)
          /\ Emitted.t = "VarDecl"
          /\ Len(Emitted.decls) = 1
          /\ Emitted.decls[1].init =
               mkIdent("$" \o module_id \o "$import$" \o hash("s1"), EmptyCtxt, <<idx, 8>>)
          /\ {b[1] : b \in BindingIds(Emitted.decls[1].name)} =
               {VarSym(b[1]) : b \in BindingIds(module[idx].decls[1].name)}
    ]_vars

\* const {k1, ...v2} = require('s1'): the fact for k1 is recorded, s1 is
\* non-static, and the declarator stays with the namespace as initializer
C26_Witness ==
  /\ IsOk
  /\ module = <<DestrRest(1)>>
  /\ collect.imports[<<"k1", GlobalCtxt>>].specifier = "k1"
  /\ collect.non_static_requires = {"s1"}
  /\ Len(result.module) = 2
  /\ result.module[2].decls[1].init.sym = "$" \o module_id \o "$import$" \o hash("s1")
  /\ BindingIds(result.module[2].decls[1].name) =
       {<<"$" \o module_id \o "$var$k1", GlobalCtxt>>, <<"$" \o module_id \o "$var$v2", GlobalCtxt>>}

IdX == <<"x", GlobalCtxt>>
\* the first item binds x from a require of 'other' that is hoisted
BindsXFromRequire ==
  /\ module # <<>>
  /\ module[1] \in {ConstXRequire(1), ConstRequireX(1)}
  /\ "other" \notin collect.non_static_requires
\* the synthesized import names for 'other'
OtherImportNames == {get_import_name("other", "*"), get_import_name("other", "x")}
\* the positions of the declarations `var $<id>$require$x = ..` of the body
RequireVars(body) ==
  {i \in 1..Len(body) :
     /\ body[i].t = "VarDecl"
     /\ Len(body[i].decls) = 1
     /\ body[i].decls[1].name = patIdent(get_require_ident("x"))}

\* C27: for a statically hoisted `const {x} = require('other')` or
\* `const x = require('other')`, when x is in the non-const-binding set the
\* output has exactly one declaration `var $<id>$require$x = <import name>`,
\* right after the hoisted import, and no other occurrence of x under its own
\* name, as a top-level variable or under an import name; and no assignment
\* in the output has a synthesized import name as its target
C27_NonConstRequire ==
  (IsOk /\ BindsXFromRequire) =>
    LET out == result.module
    IN /\ IdX \in DOMAIN collect.non_const_bindings =>
            /\ \E i \in 2..Len(out) :
                  /\ out[i - 1] = mkImport(module_id \o ":other", <<>>)
                  /\ RequireVars(out) = {i}
                  /\ out[i].decls[1].init.sym = get_import_name("other", collect.imports[IdX].specifier)
                  /\ {e \in IdentsOf(out) : e.sym \in OtherImportNames} = {out[i].decls[1].init}
            /\ \A e \in IdentsOf(out) :
                 /\ id(e) # IdX
                 /\ e.sym # "$" \o module_id \o "$var$x"
       /\ \A b \in AssignedIds(out) : b[1] \notin OtherImportNames

\* the renamed occurrence of the top-level binding x at rank r of line l
VarXAt(l, r) == mkIdent("$" \o module_id \o "$var$x", GlobalCtxt, <<l, r>>)

\* what the statement on line l becomes when the top-level binding x is
\* renamed and nothing else is
RenamingOfX(item, l) ==
  CASE item = LogX(l) -> Log(<<VarXAt(l, 10)>>, l)
    [] item = AssignX(l) -> Stmt(mkAssign(patIdent(VarXAt(l, 1)), mkNum(1), <<l, 2>>), l)
    [] item = ShorthandX(l) -> Stmt(mkObject(<<mkKeyValue(pnIdent("x"), VarXAt(l, 2))>>), l)
    [] item = ShorthandPatX(l) ->
         Stmt(mkAssign(patObject(<<ppKeyValue(pnIdent("x"), patIdent(VarXAt(l, 2)))>>, <<l, 1>>),
                       G("o", l, 4), <<l, 3>>), l)
    [] item = ComputedKeyX(l) ->
         Stmt(mkObject(<<mkKeyValue(pnComputed(VarXAt(l, 2)), mkNum(4))>>), l)
    [] item = ComputedMemberX(l) -> Stmt(mkMember(G("o", l, 1), VarXAt(l, 3), TRUE, <<l, 2>>), l)
    [] item = FnLocalX(l) ->
         [item EXCEPT !.ident = mkIdent("$" \o module_id \o "$var$test", GlobalCtxt, <<l, 2>>)]
    [] OTHER -> item

\* the statements whose only top-level declared identifier, if any, is x
RenamingForms(l) ==
  {LogX(l), AssignX(l), ShorthandX(l), ShorthandPatX(l), ComputedKeyX(l), ComputedMemberX(l),
   FnLocalX(l), KeyX(l), MemberX(l)}

\* C28: in an unwrapped module that declares `var x` at the top level, the
\* Rewriter's step renames exactly the identifiers that refer to that
\* binding: a reference, an assignment target, a computed key `[x]` and a
\* computed member property `o[x]` become $<id>$var$x; a shorthand property
\* `{x}` and a shorthand pattern `{x}` become `{x: $<id>$var$x}`; an x
\* declared and used inside a nested function, a non-computed key `{x: 3}`
\* and a non-computed member property `o.x` stay unchanged
C28_RenamingScope ==
  [][(Folding /\ ~collect.should_wrap /\ module[1] = VarX(1)
      /\ module[idx] \in RenamingForms(idx)) =>
       Emitted = RenamingOfX(module[idx], idx)]_vars

\* `var x = 1; function test() { var x = 3; return x; }` has been rewritten
\* unwrapped: the top-level x is renamed, the function's own x is not
C28_Witness ==
  /\ IsOk /\ ~collect.should_wrap
  /\ module = <<VarX(1), FnLocalX(2)>>
  /\ result.module[1].decls[1].name = patIdent(VarXAt(1, 3))
  /\ result.module[2] = RenamingOfX(FnLocalX(2), 2)
  /\ result.module[2].function = FnLocalX(2).function

\* the positions of the variable declarations of the body that declare `name`
DeclaringVars(body, name) ==
  {i \in 1..Len(body) :
     /\ body[i].t = "VarDecl"
     /\ \E d \in 1..Len(body[i].decls) : \E b \in BindingIds(body[i].decls[d].name) : b[1] = name}

\* the static accesses exports.K, module.exports.K and this.K of the source
\* that the output replaces by the identifier $<id>$export$<hash(K)>
RewrittenAccesses ==
  {e \in ExportsAccesses(module) :
     /\ StaticKey(e)
     /\ \E i \in IdentsOf(result.module) \cup WriteTargets(result.module) :
          i.t = "Ident" /\ i.sym = ExportName(AccessKey(e)) /\ i.span = e.span}

\* C29: in the output of an unwrapped module every identifier
\* $<id>$export$<hash(K)> that replaces an access exports.K, module.exports.K
\* or top-level this.K, read or written, is declared by exactly one variable
\* declaration of the output
C29_ExportIdentsDeclared ==
  (IsOk /\ ~result.result.should_wrap) =>
    \A e \in RewrittenAccesses :
      Cardinality(DeclaringVars(result.module, ExportName(AccessKey(e)))) = 1

\* the top-level-scope bindings that are a target in the left side of an
\* assignment expression of the module
AssignedTopLevel == {b \in AssignedIds(module) : b[2] = GlobalCtxt}

\* C30: when the Analyzer has finished, the non-const-binding set holds every
\* top-level-scope binding that is a target in the left side of an
\* assignment expression, a target after a nested assignment included, and
\* apart from the bindings of require declarations no binding that is not
\* such a target; hence the Rewriter emits the fatal diagnostic for every
\* assigned ESM import binding
C30_AssignTargetsRecorded ==
  /\ Analysed =>
       /\ \A b \in AssignedTopLevel : b \in DOMAIN collect.non_const_bindings
       /\ \A b \in DOMAIN collect.non_const_bindings \ DOMAIN collect.imports :
            b \in AssignedTopLevel
  /\ Done =>
       \A local \in ImportLocals(module) :
         id(local) \in AssignedTopLevel => DiagnosticsFor(local) # {}

====
